---------------------------- MODULE Spec2Model ----------------------------
(***************************************************************************)
(* A model of the RSS summarizer pipeline (src/src/rss_reader):            *)
(*   - AISummarizer.summarize_article and its provider chain               *)
(*   - RSSReader._remove_duplicates                                        *)
(*   - RSSReader.fetch_all_feeds (per-feed filter and cap, merge, rank)    *)
(*   - RSSAISummarizer.process_daily_articles (the batch run)              *)
(* Each component has its own specification over the shared variables.     *)
(***************************************************************************)
EXTENDS Integers, Sequences, FiniteSets, TLC

VARIABLES
    \* ---- AISummarizer ----
    hf_client,      \* TRUE iff self.hf_client is set (HF_TOKEN configured)
    openai_client,  \* TRUE iff self.openai_client is set
    s_pc,           \* position inside summarize_article
    content,        \* the content argument (None or Some(string))
    summary,        \* local variable summary (None or Some(string))
    method_used,    \* local variable method_used (None or Some(string))
    model_idx,      \* index of the next model of models_to_try
    calls,          \* log of provider invocations, in order
    s_result,       \* "pending", or <<"returned", None | Some(record)>>
    \* ---- RSSReader._remove_duplicates, applied to chosen inputs ----
    d_pc,           \* "idle", "once", "twice", "merged"
    d_input,        \* the article list X
    d_out1,         \* _remove_duplicates(X)
    d_out2,         \* _remove_duplicates(_remove_duplicates(X))
    d_out3,         \* _remove_duplicates(D + D) for D = _remove_duplicates(X)
    \* ---- RSSReader.fetch_all_feeds ----
    feeds,                  \* self.feeds, the loaded catalog
    f_pc,                   \* "idle", "loop", "done"
    max_articles_per_feed,  \* the argument max_articles_per_feed
    cutoff_date,            \* local variable cutoff_date
    processed_feeds,        \* local variable processed_feeds
    all_articles,           \* local variable all_articles
    fetched,                \* history: the response each feed's GET met
    found,                  \* history: the recent_articles each feed passed on
    unique_articles,        \* the returned list
    sort_warning,           \* TRUE iff line 223 logged "Could not sort"
    \* ---- RSSAISummarizer.process_daily_articles ----
    b_pc,             \* "idle", "loop", "digest", "returned"
    articles,         \* local variable articles, enriched in place
    steps,            \* history: what happened to each article processed
    processed_count,  \* local variable processed_count
    db_articles,      \* table articles, in rowid order
    db_digests,       \* table daily_digests, by date
    digest_files,     \* the digests/digest_<date>.txt files written, by date
    digest_calls,     \* how often generate_daily_digest was entered
    error_log,        \* logging.error records of the run
    \* ---- ContentExtractor.extract_content ----
    e_pc,             \* "idle", "bs4", "scan", "paragraphs", "check", "done"
    e_newspaper,      \* what Article.download/parse does for the url
    e_page,           \* what the GET, the parse and the scan of the page do
    e_attempts,       \* history: the strategies entered, in order
    e_content,        \* local variable content of extract_content
    e_result,         \* "pending", <<"returned", value>> or <<"raised">>
    \* ---- AISummarizer.generate_daily_digest, applied to chosen inputs ----
    g_pc,             \* "idle", "done"
    g_summaries,      \* the argument summaries
    g_digest,         \* the returned text
    \* ---- RSSReader: the catalog exported to JSON and loaded again ----
    c_pc,             \* "loaded", "exported", "reloaded"
    c_feeds,          \* self.feeds as loaded; a key a descriptor lacks is None
    c_file,           \* the JSON document written, None when there is none
    c_export_ok,      \* what export_feeds_to_json returned
    c_reloaded,       \* what load_feeds makes of the written file
    \* ---- main: run_once, then run_scheduler ----
    m_pc,             \* where the main thread is: "run_once", "register",
                      \* "loop", "pending", "in_job", "sleep"
    m_clock,          \* the wall clock, in hours since midnight of day 0
    m_next_run,       \* next_run of the registered jobs, by job
    m_queue,          \* run_pending: the due jobs not yet run in this call
    m_current,        \* the caller of the batch run being executed
    m_running,        \* batch runs (process_daily_articles) executing now
    m_started,        \* batch runs started so far
    \* ---- AISummarizer.__init__ and its environment ----
    k_pc,             \* "idle", "new", "constructed" or "raised"
    hf_token,         \* os.getenv('HF_TOKEN'): None or a string
    openai_key,       \* os.getenv('OPENAI_API_KEY'): None or a string
    openai_installed, \* whether "import openai" finds the library
    \* ---- RSSReader: normalize_datetime and parse_date on one value ----
    t_pc,             \* "idle", "start", "normalized", "again", "parsed", "fetched"
    t_input,          \* the date string of an entry, as the parsers read it
    t_normalized,     \* normalize_datetime of the datetime read, once called
    t_again,          \* normalize_datetime of t_normalized, once called
    t_parsed,         \* parse_date of the date string, once called
    t_articles        \* fetch_feed of a document holding the entry

summVars == <<hf_client, openai_client, s_pc, content, summary, method_used,
              model_idx, calls, s_result>>
dedupVars == <<d_pc, d_input, d_out1, d_out2, d_out3>>

fetchVars == <<feeds, f_pc, max_articles_per_feed, cutoff_date, processed_feeds,
               all_articles, fetched, found, unique_articles, sort_warning>>

batchVars == <<b_pc, articles, steps, processed_count, db_articles, db_digests,
               digest_files, digest_calls, error_log>>

extractVars == <<e_pc, e_newspaper, e_page, e_attempts, e_content, e_result>>

digestVars == <<g_pc, g_summaries, g_digest>>

catalogVars == <<c_pc, c_feeds, c_file, c_export_ok, c_reloaded>>

schedVars == <<m_pc, m_clock, m_next_run, m_queue, m_current, m_running,
               m_started>>

credVars == <<k_pc, hf_token, openai_key, openai_installed>>

dateVars == <<t_pc, t_input, t_normalized, t_again, t_parsed, t_articles>>

vars == <<summVars, dedupVars, fetchVars, batchVars, extractVars, digestVars,
          catalogVars, schedVars, credVars, dateVars>>

\* The variables a component's actions leave alone.
notSumm == <<dedupVars, fetchVars, batchVars, extractVars, digestVars, catalogVars,
        schedVars, credVars, dateVars>>
notDedup == <<summVars, fetchVars, batchVars, extractVars, digestVars, catalogVars,
        schedVars, credVars, dateVars>>
notFetch == <<summVars, dedupVars, batchVars, extractVars, digestVars, catalogVars,
        schedVars, credVars, dateVars>>
notBatch == <<summVars, dedupVars, f_pc, max_articles_per_feed, cutoff_date,
              processed_feeds, all_articles, fetched, found, unique_articles,
              sort_warning, extractVars, digestVars, catalogVars,
        schedVars, credVars, dateVars>>
notExtract == <<summVars, dedupVars, fetchVars, batchVars, digestVars, catalogVars,
        schedVars, credVars, dateVars>>
notDigest == <<summVars, dedupVars, fetchVars, batchVars, extractVars, catalogVars,
        schedVars, credVars, dateVars>>
notSched == <<summVars, dedupVars, fetchVars, batchVars, extractVars, digestVars,
             catalogVars, credVars, dateVars>>
notCred == <<dedupVars, fetchVars, batchVars, extractVars, digestVars, catalogVars,
            schedVars, dateVars>>
notDate == <<summVars, dedupVars, fetchVars, batchVars, extractVars, digestVars,
            catalogVars, schedVars, credVars>>
notCatalog == <<summVars, dedupVars, fetchVars, batchVars, extractVars, digestVars,
        schedVars, credVars, dateVars>>

-----------------------------------------------------------------------------
(* Optional values: Python's None and a present value.                     *)
None == <<>>
Some(v) == <<v>>
IsNone(o) == o = <<>>
The(o) == o[1]

\* Python truthiness of an Optional[str]: None and "" are falsy.
Truthy(o) == o # None /\ The(o) # ""

-----------------------------------------------------------------------------
(* Strings.                                                                *)

\* s repeated n times (by doubling, to keep the recursion shallow).
RECURSIVE Rep(_, _)
Rep(s, n) ==
    IF n = 0 THEN ""
    ELSE IF n % 2 = 0 THEN LET h == Rep(s, n \div 2) IN h \o h
    ELSE s \o Rep(s, n - 1)

\* Python's s[:n].
Prefix(s, n) == IF Len(s) <= n THEN s ELSE SubSeq(s, 1, n)

\* Positions where the delimiter ". " starts. Two occurrences cannot overlap,
\* so these are exactly the cuts str.split('. ') makes.
DelimPositions(s) == {i \in 1..(Len(s) - 1) : SubSeq(s, i, i + 1) = ". "}

RECURSIVE SplitFrom(_, _, _)
SplitFrom(s, start, cuts) ==
    LET later == {p \in cuts : p >= start} IN
    IF later = {} THEN <<SubSeq(s, start, Len(s))>>
    ELSE LET p == CHOOSE q \in later : \A r \in later : q <= r
         IN  <<SubSeq(s, start, p - 1)>> \o SplitFrom(s, p + 2, cuts)

\* content.split('. ')
Split(s) == SplitFrom(s, 1, DelimPositions(s))

\* sep.join(pieces)
RECURSIVE Join(_, _)
Join(pieces, sep) ==
    IF Len(pieces) = 0 THEN ""
    ELSE IF Len(pieces) = 1 THEN pieces[1]
    ELSE pieces[1] \o sep \o Join(Tail(pieces), sep)

\* str.strip() for the blank character.
RECURSIVE Strip(_)
Strip(s) ==
    IF Len(s) = 0 THEN s
    ELSE IF SubSeq(s, 1, 1) = " " THEN Strip(SubSeq(s, 2, Len(s)))
    ELSE IF SubSeq(s, Len(s), Len(s)) = " " THEN Strip(SubSeq(s, 1, Len(s) - 1))
    ELSE s

-----------------------------------------------------------------------------
(* AISummarizer (ai_summarizer.py).                                        *)

MinContentLen == 100     \* summarize_article: len(content) < 100
HFMaxLength == 3000      \* summarize_with_hf: max_length
NumSentences == 3        \* extract_key_sentences: num_sentences

models_to_try_FirstTwice == <<"facebook/bart-large-cnn", "facebook/bart-large-cnn", "t5-base">>
models_to_try == <<"facebook/bart-large-cnn", "t5-base", "google/pegasus-xsum">>

\* Bounds of the contents tried.
MaxSentences == 5
SentenceLen == 40

\* A content of k sentences, each SentenceLen times its own letter, joined
\* by ". ".
SentencePieces(k) ==
    [i \in 1..k |-> Rep(SubSeq("abcdefghijklmnopqrstuvwxyz", i, i), SentenceLen)]
SentenceText(k) == Join(SentencePieces(k), ". ")

Contents ==
    {None, Some(""), Some(Rep("x", MinContentLen - 1)), Some(Rep("x", MinContentLen)),
     Some(Rep(". ", MinContentLen \div 2)),
     Some(Rep("y", HFMaxLength)), Some(Rep("z", HFMaxLength + 1))}
    \cup {Some(SentenceText(k)) : k \in 1..MaxSentences}

\* extract_key_sentences(content), lines 127-140.
extract_key_sentences_LowerMiddle(c) ==
    LET sentences == Split(c)
        n == Len(sentences)
    IN  IF n <= NumSentences THEN c
        ELSE Join(<<sentences[1], sentences[((n - 1) \div 2) + 1], sentences[n]>>, ". ")
extract_key_sentences(c) ==
    LET sentences == Split(c)
        n == Len(sentences)
    IN  IF n <= NumSentences THEN c
        ELSE Join(<<sentences[1], sentences[(n \div 2) + 1], sentences[n]>>, ". ")

\* The text summarize_with_hf passes to the client (lines 64-66).
hf_text(c) == IF Len(c) > HFMaxLength THEN Prefix(c, HFMaxLength) \o "..." ELSE c

\* What one call of hf_client.summarization can do (lines 76-90).
SummaryTexts == {"", "Remote summary."}
HFOutcomes ==
    {[kind |-> "raise", text |-> ""], [kind |-> "emptylist", text |-> ""],
     [kind |-> "other", text |-> ""]}
    \cup {[kind |-> k, text |-> t] : k \in {"list", "dict"}, t \in SummaryTexts}

\* What the chat completion call can do (lines 111-125): raise, or a message.
OpenAIOutcomes ==
    {[kind |-> "raise", text |-> ""]}
    \cup {[kind |-> "message", text |-> t] : t \in SummaryTexts \cup {"  ", " Chat summary. "}}

\* Line 49: "if not summary" (the extractive fallback), else the return.
AfterOpenAI_NoFallback(sm) == "return"
AfterOpenAI(sm) == IF ~Truthy(sm) THEN "extract" ELSE "return"

\* Line 43: "if not summary and self.openai_client".
AfterHF_IgnoresSummary(sm) == IF openai_client THEN "openai" ELSE AfterOpenAI(sm)
AfterHF(sm) == IF ~Truthy(sm) /\ openai_client THEN "openai" ELSE AfterOpenAI(sm)

\* Line 29: "if not content or len(content) < 100".
TooShort_NoLength(c) == c = None \/ The(c) = ""
TooShort(c) == c = None \/ The(c) = "" \/ Len(The(c)) < MinContentLen

\* __init__, lines 7-25: a client exists iff its credential is configured
\* (and, for openai, the library is installed).
ClientsInit ==
    /\ hf_client \in BOOLEAN
    /\ openai_client \in BOOLEAN

SummIdle ==
    /\ s_pc = "idle"
    /\ content = None
    /\ summary = None
    /\ method_used = None
    /\ model_idx = 1
    /\ calls = <<>>
    /\ s_result = <<"pending">>

\* The values summarize_with_hf (lines 60-96) and summarize_with_openai
\* (lines 98-125) can return.
HFReturns == {None} \cup {Some(o.text) : o \in {x \in HFOutcomes : x.kind \in {"list", "dict"}}}
OpenAIReturns ==
    {None} \cup {Some(Strip(o.text)) : o \in {x \in OpenAIOutcomes : x.kind = "message"}}

\* summarize_article(content, title), lines 27-58, as a function of what the
\* two remote providers return when they are called.
summarize_article(c, hf_return, openai_return) ==
    IF TooShort(c) THEN None
    ELSE LET s1 == IF hf_client THEN hf_return ELSE None
             m1 == IF Truthy(s1) THEN Some("huggingface") ELSE None
             use_openai == AfterHF(s1) = "openai"
             s2 == IF use_openai THEN openai_return ELSE s1
             m2 == IF use_openai /\ Truthy(s2) THEN Some("openai") ELSE m1
             use_extractive ==
                 (IF use_openai THEN AfterOpenAI(s2) ELSE AfterHF(s1)) = "extract"
             s3 == IF use_extractive THEN Some(extract_key_sentences(The(c))) ELSE s2
             m3 == IF use_extractive THEN Some("extractive") ELSE m2
         IN  Some([summary |-> s3, method |-> m3,
                   original_length |-> Len(The(c)),
                   summary_length |-> IF Truthy(s3) THEN Len(The(s3)) ELSE 0])

\* summarize_article, lines 27-37: the length guard and the first branch.
SummarizeArticle ==
    /\ s_pc = "idle"
    /\ \E c \in Contents :
        /\ content' = c
        /\ IF TooShort(c)
           THEN /\ s_pc' = "done"
                /\ s_result' = <<"returned", None>>
           ELSE /\ s_pc' = IF hf_client THEN "hf" ELSE AfterHF(None)
                /\ s_result' = s_result
    /\ summary' = None
    /\ method_used' = None
    /\ model_idx' = 1
    /\ calls' = <<>>
    /\ UNCHANGED <<hf_client, openai_client>>
    /\ UNCHANGED notSumm

\* summarize_with_hf returned sm: lines 38-40 of summarize_article.
HFReturn(sm) ==
    /\ summary' = sm
    /\ method_used' = IF Truthy(sm) THEN Some("huggingface") ELSE method_used
    /\ s_pc' = AfterHF(sm)

\* One iteration of the loop over models_to_try in summarize_with_hf.
HFCallModel ==
    /\ s_pc = "hf"
    /\ model_idx <= Len(models_to_try)
    /\ \E o \in HFOutcomes :
        /\ calls' = Append(calls, [provider |-> "huggingface",
                                   model |-> models_to_try[model_idx],
                                   text |-> hf_text(The(content)),
                                   out |-> IF o.kind \in {"list", "dict"}
                                           THEN Some(o.text) ELSE None])
        /\ IF o.kind \in {"list", "dict"}
           THEN /\ HFReturn(Some(o.text))
                /\ model_idx' = model_idx
           ELSE IF model_idx = Len(models_to_try)
           THEN /\ HFReturn(None)
                /\ model_idx' = model_idx + 1
           ELSE /\ model_idx' = model_idx + 1
                /\ UNCHANGED <<summary, method_used, s_pc>>
    /\ UNCHANGED <<hf_client, openai_client, content, s_result>>
    /\ UNCHANGED notSumm

\* summarize_with_openai and lines 44-46 of summarize_article.
OpenAICall ==
    /\ s_pc = "openai"
    /\ \E o \in OpenAIOutcomes :
        LET sm == IF o.kind = "raise" THEN None ELSE Some(Strip(o.text)) IN
        /\ calls' = Append(calls, [provider |-> "openai", model |-> "gpt-3.5-turbo",
                                   text |-> Prefix(The(content), HFMaxLength),
                                   out |-> sm])
        /\ summary' = sm
        /\ method_used' = IF Truthy(sm) THEN Some("openai") ELSE method_used
        /\ s_pc' = AfterOpenAI(sm)
    /\ UNCHANGED <<hf_client, openai_client, content, model_idx, s_result>>
    /\ UNCHANGED notSumm

\* Lines 49-51: the extractive fallback.
ExtractiveCall ==
    /\ s_pc = "extract"
    /\ calls' = Append(calls, [provider |-> "extractive", model |-> "",
                               text |-> The(content),
                               out |-> Some(extract_key_sentences(The(content)))])
    /\ summary' = Some(extract_key_sentences(The(content)))
    /\ method_used' = Some("extractive")
    /\ s_pc' = "return"
    /\ UNCHANGED <<hf_client, openai_client, content, model_idx, s_result>>
    /\ UNCHANGED notSumm

\* Lines 53-58: the returned dictionary.
SummReturn ==
    /\ s_pc = "return"
    /\ s_result' = <<"returned",
                     Some([summary |-> summary, method |-> method_used,
                           original_length |-> Len(The(content)),
                           summary_length |-> IF Truthy(summary)
                                              THEN Len(The(summary)) ELSE 0])>>
    /\ s_pc' = "done"
    /\ UNCHANGED <<hf_client, openai_client, content, summary, method_used,
                   model_idx, calls>>
    /\ UNCHANGED notSumm

SummNext ==
    \/ SummarizeArticle
    \/ HFCallModel
    \/ OpenAICall
    \/ ExtractiveCall
    \/ SummReturn

-----------------------------------------------------------------------------
(* Properties of summarize_article.                                        *)

Returned == s_pc = "done" /\ s_result[1] = "returned"
LongContent == content # None /\ Len(The(content)) >= MinContentLen
ShortContent == content = None \/ Len(The(content)) < MinContentLen
ProvidersCalled == {calls[i].provider : i \in 1..Len(calls)}
ProviderRank(p) == CASE p = "huggingface" -> 1 [] p = "openai" -> 2 [] p = "extractive" -> 3

\* C1: for every content of length >= 100, whatever the providers' availability
\* and outcomes, summarize_article returns a result that is not None and whose
\* summary is not empty.
C1_FallbackGuarantee ==
    (Returned /\ LongContent) =>
        /\ s_result[2] # None
        /\ Truthy(The(s_result[2]).summary)

\* C1 witness: both remote providers were available and called, neither gave a
\* summary, and the call returned.
C1_Witness ==
    /\ Returned /\ LongContent
    /\ hf_client /\ openai_client
    /\ ProvidersCalled = {"huggingface", "openai", "extractive"}

\* C2: for a content that is absent, empty or shorter than 100 characters,
\* summarize_article returns None and no provider is invoked.
C2_ShortContentNoProvider ==
    (s_pc # "idle" /\ ShortContent) =>
        /\ Returned
        /\ s_result[2] = None
        /\ calls = <<>>

\* C2 witness: a content of 99 characters with both providers available.
C2_Witness ==
    /\ Returned
    /\ content # None /\ Len(The(content)) = MinContentLen - 1
    /\ hf_client /\ openai_client

\* C3: the providers are attempted in the order huggingface, openai, extractive;
\* openai is invoked only if no huggingface call returned a non-empty summary,
\* the extractive fallback only if no remote call did; and the method tag and
\* the summary returned are those of the provider whose result was accepted,
\* which is the first non-empty result.
C3_ProviderOrder ==
    /\ \A i, j \in 1..Len(calls) :
          i < j => ProviderRank(calls[i].provider) <= ProviderRank(calls[j].provider)
    /\ \A i, j \in 1..Len(calls) :
          (i < j /\ calls[i].provider # calls[j].provider) => ~Truthy(calls[i].out)
    /\ \A i \in 1..Len(calls) : Truthy(calls[i].out) => i = Len(calls)
    /\ (Returned /\ LongContent) =>
          /\ calls # <<>>
          /\ The(s_result[2]).method = Some(calls[Len(calls)].provider)
          /\ The(s_result[2]).summary = calls[Len(calls)].out

\* C3 witness: huggingface returned an empty summary, then openai's result was
\* accepted and returned with the tag openai.
C3_Witness ==
    /\ Returned /\ LongContent
    /\ \E i \in 1..Len(calls) : calls[i].provider = "huggingface" /\ calls[i].out = Some("")
    /\ The(s_result[2]).method = Some("openai")

\* C13: extract_key_sentences splits the content at ". "; a content of at
\* most 3 pieces is returned unchanged, and of a content of n > 3 pieces the
\* first piece, the piece at index floor(n/2) (counted from 0) and the last
\* piece are returned, joined by ". "; of 4 sentences these are 1, 3 and 4.
C13_KeySentences ==
    \A c \in 1..Len(calls) : \A k \in 1..MaxSentences :
        (calls[c].provider = "extractive" /\ calls[c].text = SentenceText(k)) =>
            LET pieces == SentencePieces(k)
            IN  calls[c].out =
                    Some(IF k <= 3 THEN calls[c].text
                         ELSE pieces[1] \o ". " \o pieces[(k \div 2) + 1]
                              \o ". " \o pieces[k])

\* C13 witness: the extractive fallback was given a content of exactly 4
\* sentences and returned its sentences 1, 3 and 4.
C13_Witness ==
    \E c \in 1..Len(calls) :
        /\ calls[c].provider = "extractive"
        /\ calls[c].text = SentenceText(4)
        /\ calls[c].out = Some(Join(<<SentencePieces(4)[1], SentencePieces(4)[3],
                                      SentencePieces(4)[4]>>, ". "))

\* C22: the text handed to a huggingface summarization call is at most 3000
\* characters long, and a content of at most 3000 characters is handed over
\* unchanged.
C22_HFInputAtMost3000 ==
    \A i \in 1..Len(calls) :
        calls[i].provider = "huggingface" =>
            /\ Len(calls[i].text) <= HFMaxLength
            /\ Len(The(content)) <= HFMaxLength => calls[i].text = The(content)

-----------------------------------------------------------------------------
(* RSSReader (rss_reader.py): articles and _remove_duplicates.             *)

\* A datetime: a clock reading in whole hours and either no zone (tz = None,
\* a naive datetime) or an offset from UTC in hours (an aware one).
Naive(clock) == [clock |-> clock, tz |-> None]
Zoned(clock, offset) == [clock |-> clock, tz |-> Some(offset)]
UTC == 0                 \* timezone.utc
Aware(dt) == dt.tz # None

\* What a comparison of datetimes compares: the instant on the UTC time line
\* of an aware one, the clock reading of a naive one.
Instant(dt) == IF Aware(dt) THEN dt.clock - The(dt.tz) ELSE dt.clock

\* datetime comparison raises TypeError between a naive and an aware value.
CompareRaises(a, b) == Aware(a) # Aware(b)

\* An article dictionary as fetch_feed builds it (lines 121-133); the keys
\* content, summary and summary_method are attached later by the batch run,
\* and a key that is absent reads as None through article.get.
Article(title, guid, link, published, source, feed_category) ==
    [title |-> title, guid |-> guid, link |-> link, published |-> published,
     source |-> source, feed_category |-> feed_category, content |-> None,
     summary |-> None, summary_method |-> None]

\* Line 234: identifier = article.get('guid') or article.get('link', '')
identity_key_LinkFirst(a) == IF a.link # "" THEN a.link ELSE a.guid
identity_key(a) == IF a.guid # "" THEN a.guid ELSE a.link

\* Lines 233-237: the loop of _remove_duplicates over the rest of the list,
\* with the set seen and the list unique_articles built so far.
RECURSIVE RemoveDupLoop_SeenLink(_, _, _)
RemoveDupLoop_SeenLink(article_list, seen, unique) ==
    IF article_list = <<>> THEN unique
    ELSE LET article == Head(article_list)
             identifier == identity_key(article)
         IN  IF identifier # "" /\ identifier \notin seen
             THEN RemoveDupLoop_SeenLink(Tail(article_list), seen \cup {article.link},
                                         Append(unique, article))
             ELSE RemoveDupLoop_SeenLink(Tail(article_list), seen, unique)

RECURSIVE RemoveDupLoop(_, _, _)
RemoveDupLoop(article_list, seen, unique) ==
    IF article_list = <<>> THEN unique
    ELSE LET article == Head(article_list)
             identifier == identity_key(article)
         IN  IF identifier # "" /\ identifier \notin seen
             THEN RemoveDupLoop(Tail(article_list), seen \cup {identifier},
                                Append(unique, article))
             ELSE RemoveDupLoop(Tail(article_list), seen, unique)

\* _remove_duplicates(articles), lines 228-243.
remove_duplicates(article_list) == RemoveDupLoop(article_list, {}, <<>>)

\* Bound of the lists handed to _remove_duplicates.
MaxLen == 3

\* Articles with every combination the identity key distinguishes: equal links
\* under different guids, equal guids under different links, an empty guid, a
\* guid that fell back to the link, and neither guid nor link.
DedupPool ==
    {Article("A", "g1", "l1", Zoned(5, UTC), "Feed 1", "news"),
     Article("B", "g2", "l1", Zoned(4, UTC), "Feed 2", "technology"),
     Article("C", "g1", "l2", Zoned(3, UTC), "Feed 2", "technology"),
     Article("D", "", "l2", Zoned(2, UTC), "Feed 1", "news"),
     Article("E", "l2", "l2", Zoned(1, UTC), "Feed 2", "technology"),
     Article("F", "", "", Zoned(6, UTC), "Feed 1", "news")}

RECURSIVE SeqsUpTo(_, _)
SeqsUpTo(S, n) ==
    IF n = 0 THEN {<<>>}
    ELSE LET shorter == SeqsUpTo(S, n - 1)
         IN  shorter \cup {Append(q, x) : q \in {r \in shorter : Len(r) = n - 1}, x \in S}

\* Apply _remove_duplicates to a chosen list X.
DedupOnce ==
    /\ d_pc = "idle"
    /\ \E X \in SeqsUpTo(DedupPool, MaxLen) :
        /\ d_input' = X
        /\ d_out1' = remove_duplicates(X)
    /\ d_pc' = "once"
    /\ UNCHANGED <<d_out2, d_out3>>
    /\ UNCHANGED notDedup

\* Apply it again to its own result.
DedupTwice ==
    /\ d_pc = "once"
    /\ d_out2' = remove_duplicates(d_out1)
    /\ d_pc' = "twice"
    /\ UNCHANGED <<d_input, d_out1, d_out3>>
    /\ UNCHANGED notDedup

\* Apply it to the deduplicated list concatenated with itself.
DedupMerged ==
    /\ d_pc = "twice"
    /\ d_out3' = remove_duplicates(d_out1 \o d_out1)
    /\ d_pc' = "merged"
    /\ UNCHANGED <<d_input, d_out1, d_out2>>
    /\ UNCHANGED notDedup

DedupNext ==
    \/ DedupOnce
    \/ DedupTwice
    \/ DedupMerged

-----------------------------------------------------------------------------
(* Properties of _remove_duplicates.                                       *)

\* The identity key as the specification states it.
StatedKey(a) == IF a.guid # "" THEN a.guid ELSE a.link

\* The elements of X at the positions in K, in order.
Restrict(X, K) ==
    LET F[i \in 0..Len(X)] ==
            IF i = 0 THEN <<>>
            ELSE IF i \in K THEN Append(F[i - 1], X[i]) ELSE F[i - 1]
    IN  F[Len(X)]

FirstOfKey(X) ==
    {i \in 1..Len(X) :
        /\ StatedKey(X[i]) # ""
        /\ \A j \in 1..(i - 1) : StatedKey(X[j]) # StatedKey(X[i])}

\* C8: _remove_duplicates keeps, in input order, exactly the articles that have
\* a non-empty identity key (guid if non-empty, else link) and are the first of
\* the input with that key; articles with neither guid nor link are dropped, and
\* a list of two articles with different non-empty guids is kept whole even when
\* the two share a link.
C8_DedupByIdentityKey ==
    d_pc # "idle" =>
        /\ d_out1 = Restrict(d_input, FirstOfKey(d_input))
        /\ (/\ Len(d_input) = 2
            /\ d_input[1].guid # "" /\ d_input[2].guid # ""
            /\ d_input[1].guid # d_input[2].guid) => d_out1 = d_input

\* C8 witness: the input holds two articles with the same link and different
\* guids, both kept, then an article with an already seen key, dropped while
\* the earlier one of that key is kept.
C8_Witness ==
    /\ d_pc # "idle"
    /\ Len(d_input) = 3
    /\ \E i, j \in 1..Len(d_out1) :
          /\ i # j
          /\ d_out1[i].link = d_out1[j].link
          /\ d_out1[i].guid # d_out1[j].guid
    /\ \E i, j \in 1..Len(d_input) :
          /\ i < j
          /\ d_input[i] # d_input[j]
          /\ StatedKey(d_input[i]) = StatedKey(d_input[j])
          /\ \E m \in 1..Len(d_out1) : d_out1[m] = d_input[i]
          /\ \A m \in 1..Len(d_out1) : d_out1[m] # d_input[j]

\* C9: deduplication is idempotent: deduplicating the result again changes
\* nothing, and deduplicating the result concatenated with itself gives the
\* result.
C9_DedupIdempotent ==
    /\ d_pc \in {"twice", "merged"} => d_out2 = d_out1
    /\ d_pc = "merged" => d_out3 = d_out1

\* C9 witness: a list from which duplicates were removed and in which two
\* articles remain, deduplicated again alone and merged with itself.
C9_Witness ==
    /\ d_pc = "merged"
    /\ Len(d_out1) >= 2
    /\ Len(d_out1) < Len(d_input)
    /\ d_out3 = d_out1

-----------------------------------------------------------------------------
(* RSSReader (rss_reader.py): dates, fetch_feed and fetch_all_feeds.       *)

\* Instants are whole hours on the UTC time line; a run takes less than an
\* hour, so every datetime.now(timezone.utc) of a run reads NowHour.
NowHour == 1000
HoursBack == 24          \* hours_back
MaxFeeds == 2            \* bound: feeds in the catalog
MaxEntries == 2          \* bound: entries in one feed document
MaxCap == 2              \* bound: values tried for max_articles_per_feed

\* datetime.now(timezone.utc)
Now == Zoned(NowHour, UTC)

\* normalize_datetime(dt), lines 56-66.
normalize_datetime_KeepsZone(dt) ==
    IF dt = None THEN Now
    ELSE IF The(dt).tz = None THEN Zoned(The(dt).clock, UTC)
    ELSE The(dt)
normalize_datetime(dt) ==
    IF dt = None THEN Now
    ELSE IF The(dt).tz = None THEN Zoned(The(dt).clock, UTC)
    ELSE Zoned(The(dt).clock - The(The(dt).tz), UTC)

\* parse_date(date_str), lines 68-102. A date string is modelled by what the
\* parsers make of it: "" (absent), "unparseable", or a datetime.
parse_date(date_str) ==
    IF date_str.kind = "absent" THEN Now
    ELSE IF date_str.kind = "unparseable" THEN Now
    ELSE normalize_datetime(Some(date_str.dt))

DateString(dt) == [kind |-> "date", dt |-> dt]
AbsentDate == [kind |-> "absent", dt |-> Naive(0)]

\* The entries a feed document may hold: id is None when the entry has no id.
\*   "A": published one hour after the cutoff;  "B": no id and no date;  "C":
\*   the guid of "A" under another link, zoned, at the same instant as "A";
\*   "D": published exactly at the cutoff, the link of "A" under another guid.
FeedEntries ==
    {[title |-> "A", id |-> Some("g1"), link |-> "l1",
      published |-> DateString(Naive(NowHour - HoursBack + 1))],
     [title |-> "B", id |-> None, link |-> "l2", published |-> AbsentDate],
     [title |-> "C", id |-> Some("g1"), link |-> "l3",
      published |-> DateString(Zoned(NowHour - HoursBack + 4, 3))],
     [title |-> "D", id |-> Some("g4"), link |-> "l1",
      published |-> DateString(Naive(NowHour - HoursBack))]}

\* The sequences without repetition of at most n elements of S.
InjSeqsUpTo(S, n) ==
    {q \in SeqsUpTo(S, n) : \A i, j \in 1..Len(q) : i # j => q[i] # q[j]}

\* What the GET of a feed can meet (lines 108-109): a document, a timeout, or
\* an error status (whose body may still parse as a feed).
FeedResponses ==
    {[status |-> "ok", entries |-> es] : es \in InjSeqsUpTo(FeedEntries, MaxEntries)}
    \cup {[status |-> "timeout", entries |-> <<>>]}
    \cup {[status |-> "http_error",
           entries |-> <<CHOOSE e \in FeedEntries : e.title = "B">>]}

\* The i-th feed descriptor of the catalog.
FeedInfo(i) ==
    [url |-> "https://feed" \o ToString(i), title |-> "Feed " \o ToString(i),
     category |-> IF i % 2 = 1 THEN "news" ELSE "technology"]

\* Lines 117-134: the article built from one entry.
EntryArticle(feed_info, entry) ==
    Article(entry.title,
            IF entry.id # None THEN The(entry.id) ELSE entry.link,
            entry.link, parse_date(entry.published), feed_info.title,
            feed_info.category)

\* fetch_feed(feed_info), lines 104-140, given what the GET met.
fetch_feed_NoStatusCheck(feed_info, response) ==
    [i \in 1..Len(response.entries) |-> EntryArticle(feed_info, response.entries[i])]
fetch_feed(feed_info, response) ==
    IF response.status # "ok" THEN <<>>
    ELSE [i \in 1..Len(response.entries) |-> EntryArticle(feed_info, response.entries[i])]

\* list.sort(key=published, reverse=True): a stable sort, newest first.
\* InsertDesc puts a behind every element that is not older than it.
InsertDesc(sorted, a) ==
    LET k == Cardinality({i \in 1..Len(sorted) :
                            Instant(sorted[i].published) >= Instant(a.published)})
    IN  SubSeq(sorted, 1, k) \o <<a>> \o SubSeq(sorted, k + 1, Len(sorted))
InsertAsc(sorted, a) ==
    LET k == Cardinality({i \in 1..Len(sorted) :
                            Instant(sorted[i].published) <= Instant(a.published)})
    IN  SubSeq(sorted, 1, k) \o <<a>> \o SubSeq(sorted, k + 1, Len(sorted))

RECURSIVE SortByPublishedAsc(_)
SortByPublishedAsc(article_list) ==
    IF article_list = <<>> THEN <<>>
    ELSE InsertAsc(SortByPublishedAsc(SubSeq(article_list, 1, Len(article_list) - 1)),
                   article_list[Len(article_list)])

RECURSIVE SortByPublishedDesc(_)
SortByPublishedDesc(article_list) ==
    IF article_list = <<>> THEN <<>>
    ELSE InsertDesc(SortByPublishedDesc(SubSeq(article_list, 1, Len(article_list) - 1)),
                    article_list[Len(article_list)])

\* list.sort raises what a comparison of two of its keys raises.
SortRaises(article_list) ==
    \E i, j \in 1..Len(article_list) :
        CompareRaises(article_list[i].published, article_list[j].published)

\* Lines 188-199: the recency filter; an article whose comparison with the
\* cutoff raises is appended by the except branch.
RecentArticles_Inclusive(article_list, cutoff) ==
    SelectSeq(article_list,
              LAMBDA article : \/ CompareRaises(article.published, cutoff)
                               \/ Instant(article.published) >= Instant(cutoff))
RecentArticles(article_list, cutoff) ==
    SelectSeq(article_list,
              LAMBDA article : \/ CompareRaises(article.published, cutoff)
                               \/ Instant(article.published) > Instant(cutoff))

\* Lines 201-206: the per-feed limit.
LimitPerFeed_NoSort(recent_articles, cap) ==
    IF Len(recent_articles) > cap THEN SubSeq(recent_articles, 1, cap)
    ELSE recent_articles
LimitPerFeed(recent_articles, cap) ==
    IF Len(recent_articles) > cap
    THEN SubSeq(SortByPublishedDesc(recent_articles), 1, cap)
    ELSE recent_articles

\* Lines 188-212 for the articles fetch_feed returned: what the feed passes
\* on to all_articles. When the sort of line 204 raises, the handler of line
\* 211 is entered before line 208 and the feed passes on nothing.
Contribution(fetched_articles, cutoff, cap) ==
    LET recent_articles == RecentArticles(fetched_articles, cutoff)
    IN  IF Len(recent_articles) > cap /\ SortRaises(recent_articles) THEN <<>>
        ELSE LimitPerFeed(recent_articles, cap)

\* Lines 185-212: what one feed passes on to all_articles.
FeedContribution(feed_info, response, cutoff, cap) ==
    Contribution(fetch_feed(feed_info, response), cutoff, cap)

\* Lines 216-223: deduplicate, then sort newest first.
RankArticles(article_list) == SortByPublishedDesc(remove_duplicates(article_list))

\* A list.sort that raises leaves the list in some order of its elements.
Arrangements(article_list) ==
    {[i \in 1..Len(article_list) |-> article_list[f[i]]] :
        f \in Permutations(1..Len(article_list))}

\* Lines 171-177 of fetch_all_feeds.
FetchAllFeedsStart ==
    /\ f_pc = "idle"
    /\ \E cap \in 1..MaxCap : max_articles_per_feed' = cap
    /\ cutoff_date' = Zoned(NowHour - HoursBack, UTC)
    /\ processed_feeds' = 0
    /\ all_articles' = <<>>
    /\ fetched' = <<>>
    /\ found' = <<>>
    /\ f_pc' = "loop"
    /\ UNCHANGED <<feeds, unique_articles, sort_warning>>
    /\ UNCHANGED notFetch

\* Lines 179-214: one iteration of the loop over self.feeds.
FetchFeedStep ==
    /\ f_pc = "loop"
    /\ processed_feeds < Len(feeds)
    /\ \E response \in FeedResponses :
        LET feed_info == feeds[processed_feeds + 1]
            recent_articles == FeedContribution(feed_info, response, cutoff_date,
                                                max_articles_per_feed)
        IN  /\ all_articles' = all_articles \o recent_articles
            /\ fetched' = Append(fetched, response)
            /\ found' = Append(found, recent_articles)
    /\ processed_feeds' = processed_feeds + 1
    /\ UNCHANGED <<feeds, f_pc, max_articles_per_feed, cutoff_date,
                   unique_articles, sort_warning>>
    /\ UNCHANGED notFetch

\* Lines 216-226: after the loop.
FetchAllFeedsReturn ==
    /\ f_pc = "loop"
    /\ processed_feeds = Len(feeds)
    /\ IF SortRaises(remove_duplicates(all_articles))
       THEN /\ unique_articles' \in Arrangements(remove_duplicates(all_articles))
            /\ sort_warning' = TRUE
       ELSE /\ unique_articles' = RankArticles(all_articles)
            /\ sort_warning' = FALSE
    /\ f_pc' = "done"
    /\ UNCHANGED <<feeds, max_articles_per_feed, cutoff_date, processed_feeds,
                   all_articles, fetched, found>>
    /\ UNCHANGED notFetch

FetchNext ==
    \/ FetchAllFeedsStart
    \/ FetchFeedStep
    \/ FetchAllFeedsReturn

\* fetch_all_feeds as a function of the catalog and of what each GET met.
RECURSIVE FetchLoop(_, _, _, _, _)
FetchLoop(all, fs, rs, cutoff, cap) ==
    IF fs = <<>> THEN all
    ELSE FetchLoop(all \o FeedContribution(Head(fs), Head(rs), cutoff, cap),
                   Tail(fs), Tail(rs), cutoff, cap)

fetch_all_feeds(fs, rs, hours_back, cap) ==
    RankArticles(FetchLoop(<<>>, fs, rs, Zoned(NowHour - hours_back, UTC), cap))

-----------------------------------------------------------------------------
(* Properties of fetch_all_feeds.                                          *)

FetchDone == f_pc = "done"
OkFeeds == {i \in 1..Len(fetched) : fetched[i].status = "ok"}

\* C5: a feed whose fetch fails contributes no article, and the returned list
\* is the one the other feeds give on their own, wherever the failing feed
\* stands in the catalog.
C5_FailedFeedIsolated ==
    /\ \A i \in 1..Len(fetched) : fetched[i].status # "ok" => found[i] = <<>>
    /\ FetchDone =>
          unique_articles = fetch_all_feeds(Restrict(feeds, OkFeeds),
                                            Restrict(fetched, OkFeeds),
                                            HoursBack, max_articles_per_feed)

\* C5 witness: a failing feed stands before a feed that yields a recent
\* article, and that article is in the returned list.
C5_Witness ==
    /\ FetchDone
    /\ \E i, j \in 1..Len(fetched) :
          /\ i < j
          /\ fetched[i].status = "http_error"
          /\ fetched[j].status = "ok"
          /\ found[j] # <<>>
    /\ unique_articles # <<>>

\* C7: the returned list is non-increasing by published, unless the final
\* sort raised and the warning was logged.
C7_NewestFirst ==
    FetchDone =>
        \/ sort_warning
        \/ \A i, j \in 1..Len(unique_articles) :
              i < j => Instant(unique_articles[i].published)
                         >= Instant(unique_articles[j].published)

\* C7 witness: two feeds gave articles, the older one first, and the final
\* sort put the newer one in front.
C7_Witness ==
    /\ FetchDone
    /\ Len(unique_articles) >= 2
    /\ unique_articles # remove_duplicates(all_articles)
    /\ Instant(unique_articles[1].published) > Instant(unique_articles[2].published)

\* The articles of feed i that pass the recency filter, as the specification
\* states it: published strictly after the cutoff.
Raw(i) == fetch_feed(feeds[i], fetched[i])
Qualifying(i) ==
    Restrict(Raw(i), {k \in 1..Len(Raw(i)) :
                        Instant(Raw(i)[k].published) > Instant(cutoff_date)})

\* Some cap positions of q whose articles are kept, each dropped one being no
\* newer than any kept one.
KeepsNewest(kept, q, cap) ==
    \E K \in SUBSET (1..Len(q)) :
        /\ Cardinality(K) = cap
        /\ \A i \in 1..Len(kept) : \E k \in K : kept[i] = q[k]
        /\ \A k \in K : \E i \in 1..Len(kept) : kept[i] = q[k]
        /\ \A k \in K, d \in (1..Len(q)) \ K :
              Instant(q[k].published) >= Instant(q[d].published)

\* C10: the cap of a feed applies to the articles that passed the recency
\* filter: when more than the cap qualify, exactly cap articles are passed on
\* and none of those dropped is newer than one passed on; otherwise all
\* qualifying articles are passed on. What is passed on is what reaches the
\* merge.
C10_CapAfterFilter ==
    /\ \A i \in 1..Len(found) :
          IF Len(Qualifying(i)) > max_articles_per_feed
          THEN /\ Len(found[i]) = max_articles_per_feed
               /\ KeepsNewest(found[i], Qualifying(i), max_articles_per_feed)
          ELSE found[i] = Qualifying(i)
    /\ f_pc # "idle" =>
          all_articles = FetchLoop(<<>>, SubSeq(feeds, 1, Len(fetched)), fetched,
                                   cutoff_date, max_articles_per_feed)

\* C10 witness: one feed has more qualifying articles than the cap and the
\* newest is not its first, another has more entries than the cap of which
\* the first does not qualify and no more than the cap do.
C10_Witness ==
    /\ \E i \in 1..Len(found) :
          /\ Len(Qualifying(i)) > max_articles_per_feed
          /\ found[i] # SubSeq(Qualifying(i), 1, max_articles_per_feed)
    /\ \E i \in 1..Len(found) :
          /\ Len(Raw(i)) > max_articles_per_feed
          /\ Len(Qualifying(i)) <= max_articles_per_feed
          /\ Qualifying(i) # <<>>
          /\ Instant(Raw(i)[1].published) <= Instant(cutoff_date)

\* C11: every returned article whose comparison with the cutoff succeeded was
\* published strictly after the cutoff (now minus hours_back), and an entry
\* published exactly at the cutoff gives no returned article.
C11_StrictCutoff ==
    FetchDone =>
        /\ \A k \in 1..Len(unique_articles) :
              ~CompareRaises(unique_articles[k].published, cutoff_date) =>
                  Instant(unique_articles[k].published) > Instant(cutoff_date)
        /\ \A i \in OkFeeds : \A e \in 1..Len(fetched[i].entries) :
              LET article == EntryArticle(feeds[i], fetched[i].entries[e])
              IN  Instant(article.published) = Instant(cutoff_date) =>
                      \A k \in 1..Len(unique_articles) : unique_articles[k] # article

\* C11 witness: a feed answered with an entry published at the cutoff and an
\* entry published one hour later, and only the later one was returned.
C11_Witness ==
    /\ FetchDone
    /\ cutoff_date = Zoned(NowHour - HoursBack, UTC)
    /\ \E i \in OkFeeds :
          /\ \E e \in 1..Len(Raw(i)) : Instant(Raw(i)[e].published) = Instant(cutoff_date)
          /\ \E e \in 1..Len(Raw(i)) :
                /\ Instant(Raw(i)[e].published) = Instant(cutoff_date) + 1
                /\ \E k \in 1..Len(unique_articles) : unique_articles[k] = Raw(i)[e]

-----------------------------------------------------------------------------
(* ContentExtractor (content_extractor.py).                                *)

ExtractMinLen == 200     \* extract_content: len(content) > 200
NewspaperMinLen == 100   \* extract_with_newspaper: len(article.text) > 100
Bs4MinLen == 200         \* extract_with_bs4: len(text) > 200

content_selectors ==
    <<"article", "[role=\"main\"]", ".article-content", ".post-content",
      ".entry-content", "main">>

NewspaperBody ==
    Join(<<Rep("a", 70), Rep("b", 70), Rep("c", 70), Rep("d", 70)>>, ". ")
ContainerBody == Rep("c", Bs4MinLen + 1)

\* What Article.download/parse can do (lines 36-42): raise, or a text.
NewspaperOutcomes ==
    {[kind |-> "raise", text |-> ""]}
    \cup {[kind |-> "text", text |-> t] :
            t \in {"", Rep("n", NewspaperMinLen + 50), Rep("m", ExtractMinLen),
                   NewspaperBody}}

\* What the GET, the parse and the scan of the page can do (lines 51-75):
\* raise at the GET, at the parse or in the selector scan, or go through. The
\* document is given by the text of the element each selector finds (None
\* when it finds none) and by the texts of its paragraphs.
NoContainer == [i \in 1..Len(content_selectors) |-> None]
LongParagraphs == <<Rep("p", 120), Rep("q", 120)>>
Page(containers, paragraphs) ==
    [kind |-> "page", at |-> "none", containers |-> containers,
     paragraphs |-> paragraphs]
Bs4Outcomes ==
    {[kind |-> "raise", at |-> "get", containers |-> NoContainer,
      paragraphs |-> <<>>],
     [kind |-> "raise", at |-> "parse", containers |-> NoContainer,
      paragraphs |-> <<>>],
     [kind |-> "raise", at |-> "select", containers |-> NoContainer,
      paragraphs |-> LongParagraphs],
     Page([NoContainer EXCEPT ![1] = Some(Rep("s", 50)), ![4] = Some(ContainerBody)],
          <<>>),
     Page([NoContainer EXCEPT ![2] = Some(Rep("r", Bs4MinLen)),
                              ![3] = Some(Rep("t", Bs4MinLen + 50)),
                              ![5] = Some(ContainerBody)],
          LongParagraphs),
     Page(NoContainer, LongParagraphs),
     Page([NoContainer EXCEPT ![1] = Some(Rep("s", 50))], LongParagraphs),
     Page(NoContainer, <<Rep("p", 100), Rep("q", 99)>>),
     Page([NoContainer EXCEPT ![6] = Some("thin")], <<"short">>)}

\* extract_with_newspaper(url), lines 33-46.
extract_with_newspaper(o) ==
    IF o.kind = "raise" THEN None
    ELSE IF o.text # "" /\ Len(o.text) > NewspaperMinLen THEN Some(o.text)
    ELSE None

\* extract_with_bs4(url), lines 48-81.
extract_with_bs4(o) ==
    IF o.kind = "raise" THEN None
    ELSE LET hits == {i \in 1..Len(content_selectors) :
                        /\ o.containers[i] # None
                        /\ Len(The(o.containers[i])) > Bs4MinLen}
             joined == Join(o.paragraphs, " ")
         IN  IF hits # {}
             THEN o.containers[CHOOSE i \in hits : \A j \in hits : i <= j]
             ELSE IF Len(joined) > Bs4MinLen THEN Some(joined) ELSE None

\* Lines 19 and 24: content and len(content) > 200.
ExtractAccepts_Over100(c) == Truthy(c) /\ Len(The(c)) > NewspaperMinLen
ExtractAccepts(c) == Truthy(c) /\ Len(The(c)) > ExtractMinLen

\* extract_content(url), lines 14-31.
extract_content(newspaper, bs4) ==
    LET first == extract_with_newspaper(newspaper)
        second == extract_with_bs4(bs4)
    IN  IF ExtractAccepts(first) THEN first
        ELSE IF ExtractAccepts(second) THEN second
        ELSE None

ExtractionResults ==
    {extract_content(n, b) : n \in NewspaperOutcomes, b \in Bs4Outcomes}

\* What the call of extract_content can do: return a result, or raise.
ExtractionOutcomes ==
    {[kind |-> "raise", value |-> None]}
    \cup {[kind |-> "return", value |-> r] : r \in ExtractionResults}

\* Lines 66-71: the first selector, in the listed order, whose element has a
\* text of more than 200 characters; 0 when there is none.
ScanHit_LastSelector(page) ==
    LET hits == {i \in 1..Len(content_selectors) :
                    /\ page.containers[i] # None
                    /\ Len(The(page.containers[i])) > Bs4MinLen}
    IN  IF hits = {} THEN 0 ELSE CHOOSE i \in hits : \A j \in hits : j <= i
ScanHit(page) ==
    LET hits == {i \in 1..Len(content_selectors) :
                    /\ page.containers[i] # None
                    /\ Len(The(page.containers[i])) > Bs4MinLen}
    IN  IF hits = {} THEN 0 ELSE CHOOSE i \in hits : \A j \in hits : i <= j

\* extract_content, lines 16-20: the newspaper strategy and its test.
ExtractContent ==
    /\ e_pc = "idle"
    /\ \E n \in NewspaperOutcomes, b \in Bs4Outcomes :
        /\ e_newspaper' = n
        /\ e_page' = b
        /\ e_content' = extract_with_newspaper(n)
        /\ IF ExtractAccepts(extract_with_newspaper(n))
           THEN /\ e_result' = <<"returned", extract_with_newspaper(n)>>
                /\ e_pc' = "done"
           ELSE /\ e_result' = e_result
                /\ e_pc' = "bs4"
    /\ e_attempts' = <<"newspaper">>
    /\ UNCHANGED notExtract

\* extract_with_bs4, lines 50-58 and 79-81: the GET and the parse of the page
\* open the selector strategy; what they raise is caught at line 79.
Bs4GetPage ==
    /\ e_pc = "bs4"
    /\ e_attempts' = Append(e_attempts, "selectors")
    /\ IF e_page.kind = "raise" /\ e_page.at \in {"get", "parse"}
       THEN /\ e_content' = None
            /\ e_pc' = "check"
       ELSE /\ e_content' = e_content
            /\ e_pc' = "scan"
    /\ UNCHANGED <<e_newspaper, e_page, e_result>>
    /\ UNCHANGED notExtract

\* extract_with_bs4, lines 60-71 and 79-81: the selector scan; what it raises
\* is caught at line 79, after the paragraph fallback of lines 73-77.
Bs4SelectorScan ==
    /\ e_pc = "scan"
    /\ IF e_page.kind = "raise"
       THEN /\ e_content' = None
            /\ e_pc' = "check"
       ELSE IF ScanHit(e_page) # 0
       THEN /\ e_content' = e_page.containers[ScanHit(e_page)]
            /\ e_pc' = "check"
       ELSE /\ e_content' = e_content
            /\ e_pc' = "paragraphs"
    /\ UNCHANGED <<e_newspaper, e_page, e_attempts, e_result>>
    /\ UNCHANGED notExtract

\* extract_with_bs4, lines 73-77: the paragraph fallback.
Bs4Paragraphs ==
    /\ e_pc = "paragraphs"
    /\ e_attempts' = Append(e_attempts, "paragraphs")
    /\ LET joined == Join(e_page.paragraphs, " ")
       IN  e_content' = IF Len(joined) > Bs4MinLen THEN Some(joined) ELSE None
    /\ e_pc' = "check"
    /\ UNCHANGED <<e_newspaper, e_page, e_result>>
    /\ UNCHANGED notExtract

\* extract_content, lines 23-27: the test of what extract_with_bs4 returned.
ExtractCheck ==
    /\ e_pc = "check"
    /\ e_result' = <<"returned", IF ExtractAccepts(e_content) THEN e_content ELSE None>>
    /\ e_pc' = "done"
    /\ UNCHANGED <<e_newspaper, e_page, e_attempts, e_content>>
    /\ UNCHANGED notExtract

ExtractNext ==
    \/ ExtractContent
    \/ Bs4GetPage
    \/ Bs4SelectorScan
    \/ Bs4Paragraphs
    \/ ExtractCheck

-----------------------------------------------------------------------------
(* Properties of extract_content.                                          *)

ExtractDone == e_pc = "done"

\* What each strategy makes of the page when it runs to its end: the text the
\* article heuristic finds, the text of the first container in selector order
\* that is longer than 200 characters, the paragraphs joined by blanks.
StrategyOutputs ==
    <<IF e_newspaper.kind = "text" THEN Some(e_newspaper.text) ELSE None,
      IF e_page.kind = "page" /\ \E i \in 1..Len(content_selectors) :
            e_page.containers[i] # None /\ Len(The(e_page.containers[i])) > 200
      THEN e_page.containers[
              CHOOSE i \in 1..Len(content_selectors) :
                  /\ e_page.containers[i] # None
                  /\ Len(The(e_page.containers[i])) > 200
                  /\ \A j \in 1..(i - 1) :
                        e_page.containers[j] = None
                        \/ Len(The(e_page.containers[j])) <= 200]
      ELSE None,
      IF e_page.kind = "page" THEN Some(Join(e_page.paragraphs, " ")) ELSE None>>
Exceeds200(o) == o # None /\ Len(The(o)) > 200

\* C12: extract_content never raises; it returns none or a text of more than
\* 200 characters; a returned text is the output of the first strategy, in
\* the order article heuristic, selector scan, paragraphs, whose output is
\* longer than 200 characters; and it returns none when no strategy gives
\* more than 200 characters.
C12_ExtractionChain ==
    ExtractDone =>
        /\ e_result[1] = "returned"
        /\ e_result[2] = None \/ Len(The(e_result[2])) > 200
        /\ e_result[2] # None =>
              \E k \in 1..3 :
                  /\ e_result[2] = StrategyOutputs[k]
                  /\ \A j \in 1..(k - 1) : ~Exceeds200(StrategyOutputs[j])
        /\ (\A k \in 1..3 : ~Exceeds200(StrategyOutputs[k])) => e_result[2] = None

\* C12 witness: the article heuristic gave a text of 101 to 200 characters,
\* a first container was too short, and the text of a later container was
\* returned although the paragraphs are long as well.
C12_Witness ==
    /\ ExtractDone
    /\ e_newspaper.kind = "text" /\ Len(e_newspaper.text) > 100
    /\ e_page.kind = "page"
    /\ e_page.containers[2] # None
    /\ e_result[2] = e_page.containers[3]
    /\ Exceeds200(e_page.containers[5])
    /\ Exceeds200(StrategyOutputs[3])

\* C20: an error in one strategy is swallowed and the chain goes on to the
\* next strategy: after an error of the article heuristic the selector
\* strategy is entered, and after an error of the selector strategy the
\* paragraph fallback is entered before none is returned.
C20_ErrorProceedsToNextStrategy ==
    ExtractDone =>
        /\ e_result[1] = "returned"
        /\ e_newspaper.kind = "raise" =>
              \E k \in 1..Len(e_attempts) : e_attempts[k] = "selectors"
        /\ e_page.kind = "raise" /\ (\E k \in 1..Len(e_attempts) : e_attempts[k] = "selectors") =>
              \E k \in 1..Len(e_attempts) : e_attempts[k] = "paragraphs"

-----------------------------------------------------------------------------
(* DatabaseManager (database.py) and the digest.                           *)

\* save_article, lines 46-70: INSERT OR REPLACE on the UNIQUE column guid.
save_article(table, article) ==
    SelectSeq(table, LAMBDA row : row.guid # article.guid) \o <<article>>

\* Calendar days are runs of 24 hours of the UTC time line.
DayOf(instant) == instant \div 24
Today == DayOf(NowHour)

\* get_articles_by_date, lines 75-85.
get_articles_by_date(table, day) ==
    SortByPublishedDesc(SelectSeq(table, LAMBDA row : DayOf(Instant(row.published)) = day))

\* main.py lines 214-224: the summaries handed to the composer.
DigestItem(row) ==
    [title |-> row.title, summary |-> The(row.summary), source |-> row.source,
     category |-> Some(row.feed_category), link |-> row.link,
     published |-> row.published]
Summaries(rows) ==
    LET with == SelectSeq(rows, LAMBDA row : Truthy(row.summary))
    IN  [i \in 1..Len(with) |-> DigestItem(with[i])]

\* str.title(): the first letter of every run of letters in upper case, its
\* other letters in lower case.
LowerCase == "abcdefghijklmnopqrstuvwxyz"
UpperCase == "ABCDEFGHIJKLMNOPQRSTUVWXYZ"
LetterIndex(ch) ==
    LET hits == {i \in 1..Len(LowerCase) :
                    SubSeq(LowerCase, i, i) = ch \/ SubSeq(UpperCase, i, i) = ch}
    IN  IF hits = {} THEN 0 ELSE CHOOSE i \in hits : TRUE
RECURSIVE TitleFrom(_, _, _)
TitleFrom(s, i, in_word) ==
    IF i > Len(s) THEN ""
    ELSE LET ch == SubSeq(s, i, i)
             k == LetterIndex(ch)
         IN  IF k = 0 THEN ch \o TitleFrom(s, i + 1, FALSE)
             ELSE IF in_word THEN SubSeq(LowerCase, k, k) \o TitleFrom(s, i + 1, TRUE)
             ELSE SubSeq(UpperCase, k, k) \o TitleFrom(s, i + 1, TRUE)
Title(s) == TitleFrom(s, 1, FALSE)

\* Line 149: item.get('category', 'general'); a missing key is None.
Category_NoDefault(item) == IF item.category = None THEN "" ELSE The(item.category)
Category(item) == IF item.category = None THEN "general" ELSE The(item.category)

\* ai_summarizer.py lines 147-153: the keys of the dictionary categories, in
\* the order of their insertion.
RECURSIVE CategoriesInOrder_LastSeenFirst(_, _)
CategoriesInOrder_LastSeenFirst(items, seen) ==
    IF items = <<>> THEN seen
    ELSE IF \E k \in 1..Len(seen) : seen[k] = Category(Head(items))
    THEN CategoriesInOrder_LastSeenFirst(Tail(items), seen)
    ELSE CategoriesInOrder_LastSeenFirst(Tail(items),
                                         <<Category(Head(items))>> \o seen)
RECURSIVE CategoriesInOrder(_, _)
CategoriesInOrder(items, seen) ==
    IF items = <<>> THEN seen
    ELSE IF \E k \in 1..Len(seen) : seen[k] = Category(Head(items))
    THEN CategoriesInOrder(Tail(items), seen)
    ELSE CategoriesInOrder(Tail(items), Append(seen, Category(Head(items))))

\* Lines 159-162: the three lines of one article.
RenderArticle(article) ==
    "**" \o article.title \o "**\n" \o article.summary \o "\n"
    \o "Source: " \o article.source \o "\n\n"

RECURSIVE RenderArticles(_)
RenderArticles(items) ==
    IF items = <<>> THEN ""
    ELSE RenderArticle(Head(items)) \o RenderArticles(Tail(items))

\* Lines 157-162: the sections, one per category.
RECURSIVE RenderSections(_, _)
RenderSections(cats, items) ==
    IF cats = <<>> THEN ""
    ELSE "## " \o Title(Head(cats)) \o "\n\n"
         \o RenderArticles(SelectSeq(items, LAMBDA x : Category(x) = Head(cats)))
         \o RenderSections(Tail(cats), items)

\* AISummarizer.generate_daily_digest(summaries), lines 142-164.
compose_digest(items) ==
    IF items = <<>> THEN "No articles found for today."
    ELSE "Daily News Digest - " \o ToString(Len(items)) \o " articles\n\n"
         \o RenderSections(CategoriesInOrder(items, <<>>), items)

MaxSummaries == 3        \* bound: summaries handed to the composer

\* Summaries as main.py lines 217-224 build them; category is None when the
\* key is missing.
SummaryItem(title, text, source, category) ==
    [title |-> title, summary |-> text, source |-> source,
     category |-> category, link |-> "l" \o title, published |-> Now]
DigestPool ==
    {SummaryItem("T1", "S1", "Feed 1", Some("technology")),
     SummaryItem("T2", "S2", "Feed 2", Some("news")),
     SummaryItem("T3", "S3", "Feed 1", None),
     SummaryItem("T4", "S4", "Feed 2", Some("technology")),
     SummaryItem("T5", "S5", "Feed 1", Some("general")),
     SummaryItem("T6", "S6", "Feed 2", Some("ai news"))}

\* One call of AISummarizer.generate_daily_digest(summaries).
ComposeDigest ==
    /\ g_pc = "idle"
    /\ g_digest' = compose_digest(g_summaries)
    /\ g_pc' = "done"
    /\ UNCHANGED g_summaries
    /\ UNCHANGED notDigest

DigestNext == ComposeDigest

-----------------------------------------------------------------------------
(* Properties of the composed digest.                                      *)

\* The lines of a text: the pieces between its newline characters.
RECURSIVE LinesFrom(_, _)
LinesFrom(text, start) ==
    LET ends == {i \in start..Len(text) : SubSeq(text, i, i) = "\n"}
    IN  IF ends = {} THEN <<SubSeq(text, start, Len(text))>>
        ELSE LET e == CHOOSE i \in ends : \A j \in ends : i <= j
             IN  <<SubSeq(text, start, e - 1)>> \o LinesFrom(text, e + 1)
StartsWith(line, prefix) ==
    Len(line) >= Len(prefix) /\ SubSeq(line, 1, Len(prefix)) = prefix

\* The articles a digest text shows, in the order of the text: each with the
\* heading it stands under, its title, its summary and its source.
RenderedArticles(text) ==
    LET lines == LinesFrom(text, 1)
        starts == {i \in 1..Len(lines) : StartsWith(lines[i], "**")}
        HeadingAbove(i) ==
            LET hs == {h \in 1..(i - 1) : StartsWith(lines[h], "## ")}
            IN  IF hs = {} THEN ""
                ELSE LET h == CHOOSE x \in hs : \A y \in hs : y <= x
                     IN  SubSeq(lines[h], 4, Len(lines[h]))
        Nth(k) == CHOOSE i \in starts : Cardinality({j \in starts : j < i}) = k - 1
    IN  [k \in 1..Cardinality(starts) |->
            [heading |-> HeadingAbove(Nth(k)),
             title |-> SubSeq(lines[Nth(k)], 3, Len(lines[Nth(k)]) - 2),
             summary |-> lines[Nth(k) + 1],
             source |-> lines[Nth(k) + 2]]]
HeadingCount(text) ==
    LET lines == LinesFrom(text, 1)
    IN  Cardinality({i \in 1..Len(lines) : StartsWith(lines[i], "## ")})

\* The category an item is shown under and the heading of that category.
StatedCategory(item) == IF item.category = None THEN "general" ELSE The(item.category)
StatedHeading(category) ==
    CASE category = "technology" -> "Technology"
      [] category = "news" -> "News"
      [] category = "general" -> "General"
      [] category = "ai news" -> "Ai News"

\* C14: the digest shows every input article exactly once, under the heading
\* of its category ("general" when the category is missing), the categories
\* in the order in which the input first shows them and the articles of one
\* category in input order; for no input it is the "no articles" text.
C14_DigestGroupsByCategory ==
    g_pc = "done" =>
        IF g_summaries = <<>> THEN g_digest = "No articles found for today."
        ELSE LET n == Len(g_summaries)
                 shown == RenderedArticles(g_digest)
                 FirstSeen(c) ==
                     CHOOSE i \in 1..n :
                         /\ StatedCategory(g_summaries[i]) = c
                         /\ \A j \in 1..(i - 1) : StatedCategory(g_summaries[j]) # c
             IN  /\ Len(shown) = n
                 /\ HeadingCount(g_digest)
                        = Cardinality({StatedCategory(g_summaries[i]) : i \in 1..n})
                 /\ \E f \in Permutations(1..n) :
                        /\ \A k \in 1..n :
                              shown[k] =
                                [heading |-> StatedHeading(StatedCategory(g_summaries[f[k]])),
                                 title |-> g_summaries[f[k]].title,
                                 summary |-> g_summaries[f[k]].summary,
                                 source |-> "Source: " \o g_summaries[f[k]].source]
                        /\ \A k, m \in 1..n :
                              k < m =>
                                LET ck == StatedCategory(g_summaries[f[k]])
                                    cm == StatedCategory(g_summaries[f[m]])
                                IN  IF ck = cm THEN f[k] < f[m]
                                    ELSE FirstSeen(ck) < FirstSeen(cm)

\* C14 witness: an article of a second category stands between an article
\* without category and an article of category "general", and the digest
\* shows the two under one heading before the other.
C14_Witness ==
    /\ g_pc = "done"
    /\ Len(g_summaries) = 3
    /\ g_summaries[1].category = None
    /\ g_summaries[2].category = Some("technology")
    /\ g_summaries[3].category = Some("general")
    /\ HeadingCount(g_digest) = 2
    /\ RenderedArticles(g_digest)[2].title = g_summaries[3].title
    /\ RenderedArticles(g_digest)[3].heading = "Technology"

\* save_daily_digest, lines 87-95: INSERT OR REPLACE on the UNIQUE column date.
save_daily_digest(table, day, digest, count) ==
    {row \in table : row.date # day}
    \cup {[date |-> day, digest_content |-> digest, article_count |-> count]}

-----------------------------------------------------------------------------
(* RSSAISummarizer.process_daily_articles (main.py).                       *)

BatchMaxArticlesPerFeed == 15   \* max_articles_per_feed passed by the batch

\* What extract_content does for the articles of a run: it raises, finds
\* nothing, or returns the text newspaper found.
BatchExtractionOutcomes ==
    {o \in ExtractionOutcomes : o.value \in {None, Some(NewspaperBody)}}

\* What the feeds answer in a run: each at most one entry.
BatchResponses == {r \in FeedResponses : Len(r.entries) <= 1}

\* A row the run of the day before left in the table.
EarlierRow ==
    [Article("Earlier", "g0", "l0", Zoned(NowHour - HoursBack - 2, UTC), "Feed 1",
             "news")
        EXCEPT !.content = Some(NewspaperBody),
               !.summary = Some("Earlier summary."),
               !.summary_method = Some("huggingface")]

\* A summarized row an earlier run of today left in the table, and the digest
\* that run stored and wrote.
TodayRow ==
    [Article("Today", "g9", "l9", Zoned(NowHour - 1, UTC), "Feed 1", "news")
        EXCEPT !.content = Some(NewspaperBody),
               !.summary = Some("Today summary."),
               !.summary_method = Some("huggingface")]
TodayDigest ==
    [date |-> Today, digest_content |-> compose_digest(Summaries(<<TodayRow>>)),
     article_count |-> 1]
TodayFile == [date |-> Today, text |-> TodayDigest.digest_content]

\* Where the run goes after article i of n (lines 167-198): the handler of
\* line 192 logs what an article raised and the loop goes on.
NextAfterArticle_Propagate(i, n, raised) ==
    IF raised THEN "returned" ELSE IF i < n THEN "loop" ELSE "digest"
NextAfterArticle_Escapes(i, n, raised) ==
    IF raised THEN "raised" ELSE IF i < n THEN "loop" ELSE "digest"
NextAfterArticle(i, n, raised) == IF i < n THEN "loop" ELSE "digest"

\* Lines 169-186 without line 181: the summary is kept, its method is not.
ArticleStep_DropsMethod(article, ext, hf_return, openai_return, sum_raises) ==
    IF ext.kind = "raise"
    THEN [article |-> article, extract |-> "raise", summarize |-> "skipped"]
    ELSE LET a1 == [article EXCEPT !.content = ext.value]
         IN  IF Truthy(a1.content) /\ sum_raises
             THEN [article |-> a1, extract |-> "ok", summarize |-> "raise"]
             ELSE LET summary_result ==
                          IF Truthy(a1.content)
                          THEN summarize_article(a1.content, hf_return, openai_return)
                          ELSE None
                      a2 == IF summary_result # None
                            THEN [a1 EXCEPT !.summary = The(summary_result).summary]
                            ELSE a1
                  IN  [article |-> a2, extract |-> "ok",
                       summarize |-> IF Truthy(a1.content) THEN "ok" ELSE "skipped"]

\* Lines 169-186 for one article: ext is what extract_content does and
\* sum_raises whether summarize_article raises.
ArticleStep(article, ext, hf_return, openai_return, sum_raises) ==
    IF ext.kind = "raise"
    THEN [article |-> article, extract |-> "raise", summarize |-> "skipped"]
    ELSE LET a1 == [article EXCEPT !.content = ext.value]
         IN  IF Truthy(a1.content) /\ sum_raises
             THEN [article |-> a1, extract |-> "ok", summarize |-> "raise"]
             ELSE LET summary_result ==
                          IF Truthy(a1.content)
                          THEN summarize_article(a1.content, hf_return, openai_return)
                          ELSE None
                      a2 == IF summary_result # None
                            THEN [a1 EXCEPT
                                    !.summary = The(summary_result).summary,
                                    !.summary_method = The(summary_result).method]
                            ELSE a1
                  IN  [article |-> a2, extract |-> "ok",
                       summarize |-> IF Truthy(a1.content) THEN "ok" ELSE "skipped"]

\* What lines 169-186 can make of one article.
ArticleSteps(article) ==
    {ArticleStep(article, ext, hf_return, openai_return, sum_raises) :
        ext \in BatchExtractionOutcomes, hf_return \in HFReturns,
        openai_return \in OpenAIReturns, sum_raises \in BOOLEAN}

\* Line 189 is reached when nothing before it raised.
SaveOutcomes(enriched) ==
    IF "raise" \in {enriched.extract, enriched.summarize} THEN {"skipped"}
    ELSE {"saved", "failed", "raise"}

StepRaised(step) == "raise" \in {step.extract, step.summarize, step.save}

\* Lines 161-163: "if not articles: return".
AfterFetch_DigestAnyway(fetched_articles) ==
    IF fetched_articles = <<>> THEN "digest" ELSE "loop"
AfterFetch(fetched_articles) == IF fetched_articles = <<>> THEN "returned" ELSE "loop"

\* Lines 154-165: fetch, and return at once when nothing was fetched.
ProcessStart ==
    /\ b_pc = "idle"
    /\ \E rs \in [1..Len(feeds) -> BatchResponses] :
        LET fetched_articles == fetch_all_feeds(feeds, rs, HoursBack,
                                                BatchMaxArticlesPerFeed)
        IN  /\ articles' = fetched_articles
            /\ b_pc' = AfterFetch(fetched_articles)
    /\ steps' = <<>>
    /\ processed_count' = 0
    /\ UNCHANGED <<feeds, db_articles, db_digests, digest_files, digest_calls,
                   error_log>>
    /\ UNCHANGED notBatch

\* Lines 167-193: one iteration of the loop over the articles.
ProcessArticle ==
    /\ b_pc = "loop"
    /\ LET i == Len(steps) + 1 IN
        \E enriched \in ArticleSteps(articles[i]) :
        \E save \in SaveOutcomes(enriched) :
            LET step == [article |-> enriched.article, extract |-> enriched.extract,
                         summarize |-> enriched.summarize, save |-> save]
            IN
            /\ articles' = [articles EXCEPT ![i] = step.article]
            /\ steps' = Append(steps, [extract |-> step.extract,
                                       summarize |-> step.summarize,
                                       save |-> step.save])
            /\ db_articles' = IF step.save = "saved"
                              THEN save_article(db_articles, step.article)
                              ELSE db_articles
            /\ processed_count' = IF step.save = "saved"
                                  THEN processed_count + 1 ELSE processed_count
            /\ error_log' = IF StepRaised(step)
                            THEN Append(error_log, "Error processing article")
                            ELSE IF step.save = "failed"
                            THEN Append(error_log, "Error saving article")
                            ELSE error_log
            /\ b_pc' = NextAfterArticle(i, Len(articles), StepRaised(step))
    /\ UNCHANGED <<feeds, db_digests, digest_files, digest_calls>>
    /\ UNCHANGED notBatch

\* Line 198 and generate_daily_digest, lines 203-248. The store may fail
\* when read, or the file may fail to be written; both are logged.
GenerateDailyDigest ==
    /\ b_pc = "digest"
    /\ digest_calls' = digest_calls + 1
    /\ \E outcome \in {"ok", "read_error", "file_error"} :
        LET rows == get_articles_by_date(db_articles, Today)
            items == Summaries(rows)
            digest == compose_digest(items)
        IN  IF outcome = "read_error"
            THEN /\ error_log' = Append(error_log, "Error generating daily digest")
                 /\ UNCHANGED <<db_digests, digest_files>>
            ELSE IF rows = <<>> \/ items = <<>>
            THEN UNCHANGED <<db_digests, digest_files, error_log>>
            ELSE /\ db_digests' = save_daily_digest(db_digests, Today, digest,
                                                    Len(items))
                 /\ IF outcome = "file_error"
                    THEN /\ error_log' = Append(error_log,
                                                "Error generating daily digest")
                         /\ UNCHANGED digest_files
                    ELSE /\ digest_files' = {f \in digest_files : f.date # Today}
                                            \cup {[date |-> Today, text |-> digest]}
                         /\ UNCHANGED error_log
    /\ b_pc' = "returned"
    /\ UNCHANGED <<feeds, articles, steps, processed_count, db_articles>>
    /\ UNCHANGED notBatch

BatchNext ==
    \/ ProcessStart
    \/ ProcessArticle
    \/ GenerateDailyDigest

-----------------------------------------------------------------------------
(* Properties of process_daily_articles.                                   *)

BatchReturned == b_pc = "returned"
SummaryMethods == {"huggingface", "openai", "extractive"}
Rows == {db_articles[k] : k \in 1..Len(db_articles)}

\* C4: every persisted article with a content of at least 100 characters has
\* a non-empty summary and a summary_method among huggingface, openai and
\* extractive, whatever the remote providers did; a persisted article without
\* content has neither summary nor summary_method.
C4_PersistedHasSummary ==
    \A row \in Rows :
        /\ (row.content # None /\ Len(The(row.content)) >= MinContentLen) =>
              /\ Truthy(row.summary)
              /\ row.summary_method # None
              /\ The(row.summary_method) \in SummaryMethods
        /\ ~Truthy(row.content) =>
              /\ row.summary = None
              /\ row.summary_method = None

\* C4 witness: at the end of a run with both remote providers configured, one
\* article is stored with the extractive summary of its content and another
\* is stored without content.
C4_Witness ==
    /\ BatchReturned
    /\ hf_client /\ openai_client
    /\ \E row \in Rows :
          /\ row.guid # EarlierRow.guid
          /\ Truthy(row.content)
          /\ row.summary_method = Some("extractive")
    /\ \E row \in Rows : row.content = None

\* C6: an exception while one article is extracted, summarized or saved does
\* not end the run: every article is processed, each article whose own steps
\* succeeded is in the store, and once the last article is done the digest
\* step runs.
C6_ArticleFailureIsolated ==
    /\ b_pc \in {"digest", "returned"} => Len(steps) = Len(articles)
    /\ \A i \in 1..Len(steps) :
          (~StepRaised(steps[i]) /\ steps[i].save = "saved") =>
              \E row \in Rows : row = articles[i]
    /\ (BatchReturned /\ articles # <<>>) => digest_calls = 1

\* C6 witness: the first article raised, the second was processed after it
\* and stored, and the digest step ran.
C6_Witness ==
    /\ BatchReturned
    /\ Len(steps) = 2
    /\ StepRaised(steps[1])
    /\ steps[2].save = "saved"
    /\ \E row \in Rows : row = articles[2]
    /\ digest_calls = 1

-----------------------------------------------------------------------------
(* RSSReader (rss_reader.py): the catalog as JSON.                         *)

MaxCatalog == 3          \* bound: descriptors in the catalog

\* A feed descriptor as load_from_json returns it: the dictionary of the
\* file, a key it lacks being None.
Descriptor(url, title, category, description) ==
    [url |-> url, title |-> title, category |-> category,
     description |-> description]
DescriptorPool ==
    {Descriptor(Some("https://feed1"), Some("Feed 1"), Some("news"), Some("First")),
     Descriptor(Some("https://feed2"), None, Some("technology"), None),
     Descriptor(Some("https://feed3"), Some("Feed 3"), None, None),
     Descriptor(Some("https://feed4"), Some(""), Some("general"), Some(""))}

\* dict.get(key, default)
GetOr(value, default) == IF value = None THEN default ELSE The(value)

\* export_feeds_to_json, lines 269-279: the structure that is dumped; every
\* object has the four keys.
json_structure(feed_list) ==
    [feeds |-> [i \in 1..Len(feed_list) |->
        [url |-> The(feed_list[i].url),
         category |-> GetOr(feed_list[i].category, "general"),
         title |-> GetOr(feed_list[i].title, ""),
         description |-> GetOr(feed_list[i].description, "")]]]

\* load_from_json, lines 50-54: the objects of the file as dictionaries.
load_from_json(config) ==
    [i \in 1..Len(config.feeds) |->
        Descriptor(Some(config.feeds[i].url), Some(config.feeds[i].title),
                   Some(config.feeds[i].category),
                   Some(config.feeds[i].description))]

\* export_feeds_to_json, lines 266-289: the file is written, or opening or
\* writing it raises and False is returned.
ExportFeedsToJson ==
    /\ c_pc = "loaded"
    /\ \E written \in BOOLEAN :
        /\ c_export_ok' = written
        /\ c_file' = IF written THEN Some(json_structure(c_feeds)) ELSE None
    /\ c_pc' = "exported"
    /\ UNCHANGED <<c_feeds, c_reloaded>>
    /\ UNCHANGED notCatalog

\* load_feeds, lines 19-28, on the path of the export: a file that is not
\* there raises in load_from_json and load_feeds returns [].
ReloadFeeds ==
    /\ c_pc = "exported"
    /\ c_reloaded' = IF c_file = None THEN <<>> ELSE load_from_json(The(c_file))
    /\ c_pc' = "reloaded"
    /\ UNCHANGED <<c_feeds, c_file, c_export_ok>>
    /\ UNCHANGED notCatalog

CatalogNext ==
    \/ ExportFeedsToJson
    \/ ReloadFeeds

\* C15: a catalog exported with export_feeds_to_json and loaded again from
\* the written file is the same list of descriptors: as many, in the same
\* order, each with the url, the title and the category of the original, also
\* when the original has no title or no category.
C15_CatalogRoundTrip ==
    (c_pc = "reloaded" /\ c_export_ok) =>
        /\ Len(c_reloaded) = Len(c_feeds)
        /\ \A i \in 1..Len(c_feeds) :
              /\ c_reloaded[i].url = c_feeds[i].url
              /\ c_reloaded[i].title = c_feeds[i].title
              /\ GetOr(c_reloaded[i].category, "general")
                    = GetOr(c_feeds[i].category, "general")

\* An upper bound of the steps process_daily_articles has yet to take: the
\* fetch, one step per article not yet processed, the digest.
StepsLeft ==
    IF b_pc = "idle" THEN Len(feeds) * MaxEntries + 2
    ELSE IF b_pc = "loop" THEN Len(articles) - Len(steps) + 1
    ELSE IF b_pc = "digest" THEN 1
    ELSE 0

\* The guards of ProcessStart, ProcessArticle and GenerateDailyDigest: the
\* run is at a position from which it goes on.
CanStep ==
    \/ b_pc \in {"idle", "digest"}
    \/ b_pc = "loop" /\ Len(steps) < Len(articles)

\* C24: every batch run terminates: whatever the feed fetches, extractions,
\* provider calls and saves do, each of them returning, process_daily_articles
\* reaches its end and returns to its caller without an exception. A run that
\* has not returned can always take a step, and every step lowers the number
\* of steps left, which is never negative.
C24_BatchTerminates ==
    /\ [](~BatchReturned => CanStep)
    /\ [][StepsLeft' < StepsLeft]_vars

\* C24 witness: a run has returned after an extraction raised for its first
\* article, the save raised for its second, and the store failed to be read
\* for the digest.
C24_Witness ==
    /\ BatchReturned
    /\ Len(steps) = 2
    /\ steps[1].extract = "raise"
    /\ steps[2].save = "raise"
    /\ digest_calls = 1
    /\ Len(error_log) = 3

PersistedState == <<db_articles, db_digests, digest_files>>

\* C25: a run whose fetch yields no article returns at once and leaves the
\* persisted state as it was: no article row is written and no digest is
\* composed, stored or written, also when summarized articles of the day are
\* in the store from an earlier run.
C25_EmptyRunLeavesStore ==
    /\ [][(b_pc = "idle" /\ articles' = <<>>) =>
            /\ b_pc' = "returned"
            /\ PersistedState' = PersistedState
            /\ digest_calls' = digest_calls]_vars
    /\ []((BatchReturned /\ articles = <<>>) => (steps = <<>> /\ digest_calls = 0))

\* C25 witness: the catalog has feeds, none yielded a recent article, and the
\* run returned with the earlier run's row, digest and file of today in place.
C25_Witness ==
    /\ BatchReturned
    /\ feeds # <<>>
    /\ articles = <<>>
    /\ db_articles = <<TodayRow>>
    /\ db_digests = {TodayDigest}
    /\ digest_files = {TodayFile}
    /\ digest_calls = 0

-----------------------------------------------------------------------------
(* The external calls of a fetch and of a summarize_article call.          *)

\* Either a summarize_article call is observed (no fetch is under way and the
\* catalog is empty) or a fetch_all_feeds is (no summarize_article call is).
CallsNext ==
    \/ (f_pc = "idle" /\ feeds = <<>> /\ SummNext)
    \/ (s_pc = "idle" /\ FetchNext)

HFCalls == SelectSeq(calls, LAMBDA c : c.provider = "huggingface")
OpenAICalls == SelectSeq(calls, LAMBDA c : c.provider = "openai")

\* C23: no external call is retried. A fetch issues one GET per feed of the
\* catalog; one summarize_article call calls each huggingface model at most
\* once, in the order of the list, and openai at most once, and a call that
\* follows a failed one goes to the next model or provider.
C23_NoRetry ==
    /\ f_pc # "idle" => (Len(fetched) = processed_feeds /\ processed_feeds <= Len(feeds))
    /\ Len(HFCalls) <= Len(models_to_try)
    /\ \A i \in 1..Len(HFCalls) : HFCalls[i].model = models_to_try[i]
    /\ \A i, j \in 1..Len(HFCalls) : HFCalls[i].model = HFCalls[j].model => i = j
    /\ Len(OpenAICalls) <= 1
    /\ \A i \in 1..Len(calls) - 1 :
          \/ calls[i].provider # calls[i + 1].provider
          \/ calls[i].model # calls[i + 1].model

\* C23 witness: every huggingface model was called once and failed, openai
\* was called once and failed, and the extractive fallback took over.
C23_Witness ==
    /\ Returned /\ LongContent
    /\ Len(HFCalls) = Len(models_to_try)
    /\ \A i \in 1..Len(HFCalls) : ~Truthy(HFCalls[i].out)
    /\ Len(OpenAICalls) = 1
    /\ ~Truthy(OpenAICalls[1].out)
    /\ calls[Len(calls)].provider = "extractive"

-----------------------------------------------------------------------------
(* DatabaseManager.save_article on any sequence of articles.               *)

\* The articles handed to save_article: those of DedupPool that have an
\* identity key, and one more with an empty guid under a link of its own.
StorePool ==
    {a \in DedupPool : identity_key(a) # ""}
    \cup {Article("G", "", "l3", Zoned(7, UTC), "Feed 2", "technology")}

\* save_article(article), lines 46-73: the row is upserted and True returned,
\* or the statement fails, the table is as it was and False is returned.
SaveArticle ==
    /\ \E article \in StorePool, ok \in BOOLEAN :
          db_articles' = IF ok THEN save_article(db_articles, article) ELSE db_articles
    /\ UNCHANGED <<feeds, b_pc, articles, steps, processed_count, db_digests,
                   digest_files, digest_calls, error_log>>
    /\ UNCHANGED notBatch

StoreNext == SaveArticle

StoredRows == {db_articles[i] : i \in 1..Len(db_articles)}

\* C21: the store holds at most one record per identity key (guid if
\* non-empty, else link), and a save removes a stored record only to put a
\* record of the same identity key in its place: articles of different
\* identity keys never overwrite one another, two articles with an empty
\* guid and different links included.
C21_StoreKeyedByIdentity ==
    /\ [](\A i, j \in 1..Len(db_articles) :
            identity_key(db_articles[i]) = identity_key(db_articles[j]) => i = j)
    /\ [][\A row \in StoredRows :
            row \notin StoredRows' =>
                \E new \in StoredRows' : identity_key(new) = identity_key(row)]_vars

-----------------------------------------------------------------------------
(* fetch_all_feeds when a published value does not compare with the cutoff. *)

\* The handler of lines 196-199 provides for articles whose published value
\* cannot be compared with the aware cutoff. Such an article is one whose
\* published value is the datetime as read from the entry, naive when the
\* entry names no zone.
UnnormalizedArticle(feed_info, entry) ==
    Article(entry.title,
            IF entry.id # None THEN The(entry.id) ELSE entry.link,
            entry.link,
            IF entry.published.kind = "date" THEN entry.published.dt ELSE Now,
            feed_info.title, feed_info.category)

\* What line 186 receives then.
FetchedUnnormalized(feed_info, response) ==
    IF response.status # "ok" THEN <<>>
    ELSE [i \in 1..Len(response.entries) |->
            UnnormalizedArticle(feed_info, response.entries[i])]

\* Lines 179-214: one iteration of the loop over self.feeds, for such articles.
FailOpenFeedStep ==
    /\ f_pc = "loop"
    /\ processed_feeds < Len(feeds)
    /\ \E response \in FeedResponses :
        LET feed_info == feeds[processed_feeds + 1]
            recent_articles == Contribution(FetchedUnnormalized(feed_info, response),
                                            cutoff_date, max_articles_per_feed)
        IN  /\ all_articles' = all_articles \o recent_articles
            /\ fetched' = Append(fetched, response)
            /\ found' = Append(found, recent_articles)
    /\ processed_feeds' = processed_feeds + 1
    /\ UNCHANGED <<feeds, f_pc, max_articles_per_feed, cutoff_date,
                   unique_articles, sort_warning>>
    /\ UNCHANGED notFetch

FailOpenNext ==
    \/ FetchAllFeedsStart
    \/ FailOpenFeedStep
    \/ FetchAllFeedsReturn

\* The articles of the i-th feed whose comparison with the cutoff raised.
ComparisonRaised(i) ==
    LET fetched_articles == FetchedUnnormalized(feeds[i], fetched[i])
    IN  {fetched_articles[k] : k \in {n \in 1..Len(fetched_articles) :
            CompareRaises(fetched_articles[n].published, cutoff_date)}}

-----------------------------------------------------------------------------
(* RSSReader.normalize_datetime and parse_date on every kind of input.     *)

MaxDateSpan == 9         \* bound: clock readings tried, back from NowHour
DateClocks == (NowHour - MaxDateSpan)..NowHour
DateOffsets == {0 - 5, UTC, 3}
UnparseableDate == [kind |-> "unparseable", dt |-> Naive(0)]

\* The date strings an entry may carry.
DateStrings ==
    {AbsentDate, UnparseableDate}
    \cup {DateString(Naive(c)) : c \in DateClocks}
    \cup {DateString(Zoned(c, o)) : c \in DateClocks, o \in DateOffsets}

\* The datetime a caller of normalize_datetime holds for a date string: None
\* when there is none.
DatetimeOf(date_str) == IF date_str.kind = "date" THEN Some(date_str.dt) ELSE None

\* normalize_datetime(dt) is called.
NormalizeDatetime ==
    /\ t_pc = "start"
    /\ t_normalized' = Some(normalize_datetime(DatetimeOf(t_input)))
    /\ t_pc' = "normalized"
    /\ UNCHANGED <<t_input, t_again, t_parsed, t_articles>>
    /\ UNCHANGED notDate

\* normalize_datetime is called on its own result.
NormalizeAgain ==
    /\ t_pc = "normalized"
    /\ t_again' = Some(normalize_datetime(t_normalized))
    /\ t_pc' = "again"
    /\ UNCHANGED <<t_input, t_normalized, t_parsed, t_articles>>
    /\ UNCHANGED notDate

\* parse_date(date_str) is called.
ParseDate ==
    /\ t_pc = "again"
    /\ t_parsed' = Some(parse_date(t_input))
    /\ t_pc' = "parsed"
    /\ UNCHANGED <<t_input, t_normalized, t_again, t_articles>>
    /\ UNCHANGED notDate

\* fetch_feed reads a document whose only entry carries the date string.
FetchEntry ==
    /\ t_pc = "parsed"
    /\ t_articles' = fetch_feed(FeedInfo(1),
                                [status |-> "ok",
                                 entries |-> <<[title |-> "A", id |-> Some("g1"),
                                                link |-> "l1",
                                                published |-> t_input]>>])
    /\ t_pc' = "fetched"
    /\ UNCHANGED <<t_input, t_normalized, t_again, t_parsed>>
    /\ UNCHANGED notDate

DateNext ==
    \/ NormalizeDatetime
    \/ NormalizeAgain
    \/ ParseDate
    \/ FetchEntry

\* What the claim states of the result out for the datetime dt (None: absent).
NormalizedAsStated(dt, out) ==
    /\ out.tz = Some(UTC)
    /\ dt = None => out = Now
    /\ (dt # None /\ ~Aware(The(dt))) => out.clock = The(dt).clock
    /\ (dt # None /\ Aware(The(dt))) => Instant(out) = Instant(The(dt))

\* C18: normalize_datetime and parse_date return an aware datetime at UTC: a
\* naive input keeps its clock reading, a zoned one is converted to the same
\* instant, an absent or unparseable one gives the current UTC time;
\* normalize_datetime is idempotent, and the published value of every article
\* fetch_feed builds is aware.
C18_DatesAreAwareUTC ==
    /\ t_normalized # None => NormalizedAsStated(DatetimeOf(t_input), The(t_normalized))
    /\ t_again # None => t_again = t_normalized
    /\ t_parsed # None => NormalizedAsStated(DatetimeOf(t_input), The(t_parsed))
    /\ \A i \in 1..Len(t_articles) :
          /\ Aware(t_articles[i].published)
          /\ t_articles[i].published.tz = Some(UTC)

\* C18 witness: a date zoned three hours east of UTC went through both
\* functions and fetch_feed, and reads three hours less at UTC.
C18_Witness ==
    /\ t_pc = "fetched"
    /\ t_input.kind = "date"
    /\ t_input.dt.tz = Some(3)
    /\ Len(t_articles) = 1
    /\ t_articles[1].published = Zoned(t_input.dt.clock - 3, UTC)
    /\ t_again = Some(Zoned(t_input.dt.clock - 3, UTC))

-----------------------------------------------------------------------------
(* AISummarizer.__init__ (ai_summarizer.py, lines 7-25).                   *)

\* What os.getenv gives for a credential: unset, set to the empty string, or
\* set to a token.
CredentialValues == {None, Some(""), Some("token")}

\* Lines 11-14: the huggingface client exists iff HF_TOKEN is truthy.
InitHF(token) == [raised |-> FALSE, client |-> Truthy(token)]

\* Lines 17-25: the openai client exists iff OPENAI_API_KEY is truthy and the
\* library imports; the ImportError of a missing library is caught.
InitOpenAI_ImportErrorEscapes(key, installed) ==
    IF Truthy(key) /\ ~installed THEN [raised |-> TRUE, client |-> FALSE]
    ELSE [raised |-> FALSE, client |-> Truthy(key)]
InitOpenAI(key, installed) == [raised |-> FALSE, client |-> Truthy(key) /\ installed]

\* AISummarizer(): the constructor.
Construct ==
    /\ k_pc = "new"
    /\ LET hf == InitHF(hf_token)
           oa == InitOpenAI(openai_key, openai_installed)
       IN  IF hf.raised \/ oa.raised
           THEN /\ k_pc' = "raised"
                /\ UNCHANGED <<hf_client, openai_client>>
           ELSE /\ k_pc' = "constructed"
                /\ hf_client' = hf.client
                /\ openai_client' = oa.client
    /\ UNCHANGED <<hf_token, openai_key, openai_installed>>
    /\ UNCHANGED <<s_pc, content, summary, method_used, model_idx, calls, s_result>>
    /\ UNCHANGED notCred

\* summarize_article is called on the constructed object.
SummarizeConstructed == k_pc = "constructed" /\ SummarizeArticle

CredNext ==
    \/ Construct
    \/ SummarizeConstructed
    \/ HFCallModel
    \/ OpenAICall
    \/ ExtractiveCall
    \/ SummReturn

HFConfigured == Truthy(hf_token)
OpenAIConfigured == Truthy(openai_key)

\* C17: when a provider's credential is not configured, the constructor does
\* not raise and summarize_article never invokes that provider, for each of
\* huggingface and openai on its own; the same holds for openai when its key
\* is set and its library is missing.
C17_UnconfiguredProviderNeverInvoked ==
    /\ (~HFConfigured \/ ~OpenAIConfigured \/ ~openai_installed) => k_pc # "raised"
    /\ k_pc = "constructed" =>
          /\ ~HFConfigured => "huggingface" \notin ProvidersCalled
          /\ (~OpenAIConfigured \/ ~openai_installed) => "openai" \notin ProvidersCalled

\* C17 witness: no huggingface token, an openai key with the library missing;
\* the object was constructed and summarized a long content extractively.
C17_Witness ==
    /\ k_pc = "constructed"
    /\ ~HFConfigured /\ OpenAIConfigured /\ ~openai_installed
    /\ Returned /\ LongContent
    /\ ProvidersCalled = {"extractive"}

-----------------------------------------------------------------------------
(* main and RSSAISummarizer.run_scheduler (main.py).                       *)

\* The wall clock counts whole hours; time.sleep(60) and a batch run may or
\* may not carry it over an hour mark.
StartHours == {4, 6}     \* hours of the day at which main is started
MaxClock == 13           \* bound: the clock of the states explored
DailyAt == 8             \* every().day.at("08:00")
IntervalHours == 4       \* every(4).hours
Jobs == {"daily", "interval"}

\* schedule: the next 08:00 after now.
NextDaily(now) ==
    IF now % 24 < DailyAt THEN (now \div 24) * 24 + DailyAt
    ELSE (now \div 24 + 1) * 24 + DailyAt

\* schedule: next_run of a job that is registered or has just run.
NextRun(job, now) == IF job = "daily" THEN NextDaily(now) ELSE now + IntervalHours

\* schedule.run_pending: the jobs with now >= next_run, sorted by next_run.
RunnableJobs(now, next_run) ==
    LET due == {j \in Jobs : now >= next_run[j]}
    IN  IF due = {} THEN <<>>
        ELSE IF Cardinality(due) = 1 THEN <<CHOOSE j \in due : TRUE>>
        ELSE IF next_run["daily"] <= next_run["interval"] THEN <<"daily", "interval">>
        ELSE <<"interval", "daily">>

\* Where the main thread is once it has called process_daily_articles: in
\* the call, until it returns.
AfterCall_Background(caller) == IF caller = "run_once" THEN "register" ELSE "pending"
AfterCall(caller) == "in_job"

\* run_once, lines 266-269: main calls the batch run.
RunOnce ==
    /\ m_pc = "run_once"
    /\ m_running' = m_running + 1
    /\ m_started' = m_started + 1
    /\ m_current' = "run_once"
    /\ m_pc' = AfterCall("run_once")
    /\ UNCHANGED <<m_clock, m_next_run, m_queue>>
    /\ UNCHANGED notSched

\* process_daily_articles returns to its caller; a job that has run is
\* scheduled again from the time of its return.
BatchReturns ==
    /\ m_pc = "in_job"
    /\ m_running' = m_running - 1
    /\ IF m_current = "run_once"
       THEN /\ m_pc' = "register"
            /\ UNCHANGED m_next_run
       ELSE /\ m_pc' = "pending"
            /\ m_next_run' = [m_next_run EXCEPT
                                 ![m_current] = NextRun(m_current, m_clock)]
    /\ UNCHANGED <<m_clock, m_queue, m_current, m_started>>
    /\ UNCHANGED notSched

\* run_scheduler, lines 273-277: the two jobs are registered.
RegisterJobs ==
    /\ m_pc = "register"
    /\ m_next_run' = [j \in Jobs |-> NextRun(j, m_clock)]
    /\ m_pc' = "loop"
    /\ UNCHANGED <<m_clock, m_queue, m_current, m_running, m_started>>
    /\ UNCHANGED notSched

\* Line 283: schedule.run_pending() collects the due jobs.
RunPending ==
    /\ m_pc = "loop"
    /\ m_queue' = RunnableJobs(m_clock, m_next_run)
    /\ m_pc' = "pending"
    /\ UNCHANGED <<m_clock, m_next_run, m_current, m_running, m_started>>
    /\ UNCHANGED notSched

\* schedule.run_pending: the next due job is run, by a call of its function.
RunJob ==
    /\ m_pc = "pending"
    /\ m_queue # <<>>
    /\ m_current' = Head(m_queue)
    /\ m_queue' = Tail(m_queue)
    /\ m_running' = m_running + 1
    /\ m_started' = m_started + 1
    /\ m_pc' = AfterCall(Head(m_queue))
    /\ UNCHANGED <<m_clock, m_next_run>>
    /\ UNCHANGED notSched

\* schedule.run_pending returns when no due job is left; line 284 sleeps.
PendingDone ==
    /\ m_pc = "pending"
    /\ m_queue = <<>>
    /\ m_pc' = "sleep"
    /\ UNCHANGED <<m_clock, m_next_run, m_queue, m_current, m_running, m_started>>
    /\ UNCHANGED notSched

\* Line 284: time.sleep(60) is over.
WakeUp ==
    /\ m_pc = "sleep"
    /\ m_pc' = "loop"
    /\ UNCHANGED <<m_clock, m_next_run, m_queue, m_current, m_running, m_started>>
    /\ UNCHANGED notSched

\* An hour mark passes while the thread sleeps or a batch run executes.
HourPasses ==
    /\ m_pc \in {"sleep", "in_job"}
    /\ m_clock < MaxClock
    /\ m_clock' = m_clock + 1
    /\ UNCHANGED <<m_pc, m_next_run, m_queue, m_current, m_running, m_started>>
    /\ UNCHANGED notSched

SchedNext ==
    \/ RunOnce
    \/ BatchReturns
    \/ RegisterJobs
    \/ RunPending
    \/ RunJob
    \/ PendingDone
    \/ WakeUp
    \/ HourPasses

\* C16: under run_once followed by run_scheduler, with the daily and the
\* 4-hourly job registered, at most one batch run executes at any time; a run
\* starts only when none executes, also when both jobs are due in one call
\* of run_pending.
C16_OneRunAtATime == m_running <= 1

\* C16 witness: both jobs were due in one call of run_pending; the first has
\* run and returned, and the second executes now, alone.
C16_Witness ==
    /\ m_pc = "in_job"
    /\ m_current = "interval"
    /\ m_queue = <<>>
    /\ m_running = 1
    /\ m_started = 3
    /\ m_next_run["daily"] > m_clock + IntervalHours

-----------------------------------------------------------------------------
(* Specifications.                                                         *)

DedupIdle ==
    /\ d_pc = "idle"
    /\ d_input = <<>>
    /\ d_out1 = <<>>
    /\ d_out2 = <<>>
    /\ d_out3 = <<>>

\* A reader used on its own: no summarizer credentials are involved.
NoClients ==
    /\ hf_client = FALSE
    /\ openai_client = FALSE

NoCatalog == feeds = <<>>

\* self.feeds after load_feeds: a catalog of at most MaxFeeds descriptors.
CatalogInit == \E n \in 0..MaxFeeds : feeds = [i \in 1..n |-> FeedInfo(i)]

FetchIdle ==
    /\ f_pc = "idle"
    /\ max_articles_per_feed = 0
    /\ cutoff_date = Zoned(0, UTC)
    /\ processed_feeds = 0
    /\ all_articles = <<>>
    /\ fetched = <<>>
    /\ found = <<>>
    /\ unique_articles = <<>>
    /\ sort_warning = FALSE

CredIdle ==
    /\ k_pc = "idle"
    /\ hf_token = None
    /\ openai_key = None
    /\ openai_installed = TRUE

DateIdle ==
    /\ t_pc = "idle"
    /\ t_input = AbsentDate
    /\ t_normalized = None
    /\ t_again = None
    /\ t_parsed = None
    /\ t_articles = <<>>

SchedIdle ==
    /\ m_pc = "run_once"
    /\ m_clock = 0
    /\ m_next_run = [j \in Jobs |-> 0]
    /\ m_queue = <<>>
    /\ m_current = "run_once"
    /\ m_running = 0
    /\ m_started = 0

CatalogIdle ==
    /\ c_pc = "loaded"
    /\ c_feeds = <<>>
    /\ c_file = None
    /\ c_export_ok = FALSE
    /\ c_reloaded = <<>>

DigestIdle ==
    /\ g_pc = "idle"
    /\ g_summaries = <<>>
    /\ g_digest = ""

ExtractIdle ==
    /\ e_pc = "idle"
    /\ e_newspaper = None
    /\ e_page = None
    /\ e_attempts = <<>>
    /\ e_content = None
    /\ e_result = <<"pending">>

BatchIdle ==
    /\ b_pc = "idle"
    /\ articles = <<>>
    /\ steps = <<>>
    /\ processed_count = 0
    /\ db_digests = {}
    /\ digest_files = {}
    /\ digest_calls = 0
    /\ error_log = <<>>

EmptyStore == db_articles = <<>>

\* The table as an earlier run may have left it.
StoreInit == db_articles \in {<<>>, <<EarlierRow>>}

SummInit ==
    ClientsInit /\ SummIdle /\ DedupIdle /\ NoCatalog /\ FetchIdle /\ BatchIdle /\ EmptyStore
    /\ ExtractIdle /\ DigestIdle /\ CatalogIdle /\ SchedIdle /\ CredIdle /\ DateIdle
SpecSumm == SummInit /\ [][SummNext]_vars

DedupInit ==
    NoClients /\ SummIdle /\ DedupIdle /\ NoCatalog /\ FetchIdle /\ BatchIdle /\ EmptyStore
    /\ ExtractIdle /\ DigestIdle /\ CatalogIdle /\ SchedIdle /\ CredIdle /\ DateIdle
SpecDedup == DedupInit /\ [][DedupNext]_vars

FetchInit ==
    NoClients /\ SummIdle /\ DedupIdle /\ CatalogInit /\ FetchIdle /\ BatchIdle /\ EmptyStore
    /\ ExtractIdle /\ DigestIdle /\ CatalogIdle /\ SchedIdle /\ CredIdle /\ DateIdle
SpecFetch == FetchInit /\ [][FetchNext]_vars

BatchInit ==
    ClientsInit /\ SummIdle /\ DedupIdle /\ CatalogInit /\ FetchIdle /\ BatchIdle /\ StoreInit
    /\ ExtractIdle /\ DigestIdle /\ CatalogIdle /\ SchedIdle /\ CredIdle /\ DateIdle
SpecBatch == BatchInit /\ [][BatchNext]_vars

ExtractInit ==
    NoClients /\ SummIdle /\ DedupIdle /\ NoCatalog /\ FetchIdle /\ BatchIdle /\ EmptyStore
    /\ ExtractIdle /\ DigestIdle /\ CatalogIdle /\ SchedIdle /\ CredIdle /\ DateIdle
SpecExtract == ExtractInit /\ [][ExtractNext]_vars

DigestInit ==
    NoClients /\ SummIdle /\ DedupIdle /\ NoCatalog /\ FetchIdle /\ BatchIdle /\ EmptyStore
    /\ ExtractIdle
    /\ g_pc = "idle"
    /\ g_summaries \in InjSeqsUpTo(DigestPool, MaxSummaries)
    /\ g_digest = ""
    /\ CatalogIdle /\ SchedIdle /\ CredIdle /\ DateIdle
SpecDigest == DigestInit /\ [][DigestNext]_vars

CatalogRoundTripInit ==
    NoClients /\ SummIdle /\ DedupIdle /\ NoCatalog /\ FetchIdle /\ BatchIdle /\ EmptyStore
    /\ ExtractIdle /\ DigestIdle
    /\ c_pc = "loaded"
    /\ c_feeds \in InjSeqsUpTo(DescriptorPool, MaxCatalog)
    /\ c_file = None
    /\ c_export_ok = FALSE
    /\ c_reloaded = <<>>
    /\ SchedIdle /\ CredIdle /\ DateIdle
SpecCatalog == CatalogRoundTripInit /\ [][CatalogNext]_vars

SchedInit ==
    NoClients /\ SummIdle /\ DedupIdle /\ NoCatalog /\ FetchIdle /\ BatchIdle /\ EmptyStore
    /\ ExtractIdle /\ DigestIdle /\ CatalogIdle
    /\ m_pc = "run_once"
    /\ m_clock \in StartHours
    /\ m_next_run = [j \in Jobs |-> 0]
    /\ m_queue = <<>>
    /\ m_current = "run_once"
    /\ m_running = 0
    /\ m_started = 0
    /\ CredIdle /\ DateIdle
SpecSched == SchedInit /\ [][SchedNext]_vars

CredInit ==
    NoClients /\ SummIdle /\ DedupIdle /\ NoCatalog /\ FetchIdle /\ BatchIdle /\ EmptyStore
    /\ ExtractIdle /\ DigestIdle /\ CatalogIdle /\ SchedIdle
    /\ k_pc = "new"
    /\ hf_token \in CredentialValues
    /\ openai_key \in CredentialValues
    /\ openai_installed \in BOOLEAN
    /\ DateIdle
SpecCred == CredInit /\ [][CredNext]_vars

SpecFailOpen == FetchInit /\ [][FailOpenNext]_vars

LaterRunInit ==
    ClientsInit /\ SummIdle /\ DedupIdle /\ CatalogInit /\ FetchIdle
    /\ ExtractIdle /\ DigestIdle /\ CatalogIdle /\ SchedIdle /\ CredIdle /\ DateIdle
    /\ b_pc = "idle"
    /\ articles = <<>>
    /\ steps = <<>>
    /\ processed_count = 0
    /\ \/ db_articles \in {<<>>, <<EarlierRow>>} /\ db_digests = {} /\ digest_files = {}
       \/ db_articles = <<TodayRow>> /\ db_digests = {TodayDigest}
          /\ digest_files = {TodayFile}
    /\ digest_calls = 0
    /\ error_log = <<>>
SpecLaterRun == LaterRunInit /\ [][BatchNext]_vars

CallsInit ==
    /\ \/ ClientsInit /\ NoCatalog
       \/ NoClients /\ CatalogInit
    /\ SummIdle /\ DedupIdle /\ FetchIdle /\ BatchIdle /\ EmptyStore
    /\ ExtractIdle /\ DigestIdle /\ CatalogIdle /\ SchedIdle /\ CredIdle /\ DateIdle
SpecCalls == CallsInit /\ [][CallsNext]_vars

StoreCallsInit ==
    NoClients /\ SummIdle /\ DedupIdle /\ NoCatalog /\ FetchIdle /\ BatchIdle /\ EmptyStore
    /\ ExtractIdle /\ DigestIdle /\ CatalogIdle /\ SchedIdle /\ CredIdle /\ DateIdle
SpecStore == StoreCallsInit /\ [][StoreNext]_vars

DateInit ==
    NoClients /\ SummIdle /\ DedupIdle /\ NoCatalog /\ FetchIdle /\ BatchIdle /\ EmptyStore
    /\ ExtractIdle /\ DigestIdle /\ CatalogIdle /\ SchedIdle /\ CredIdle
    /\ t_pc = "start"
    /\ t_input \in DateStrings
    /\ t_normalized = None
    /\ t_again = None
    /\ t_parsed = None
    /\ t_articles = <<>>
SpecDate == DateInit /\ [][DateNext]_vars

=============================================================================
